---- MODULE Spec2Model ----
(***************************************************************************)
(* Expense tracker (MERN): the Express router of backend/routes/expenses.js *)
(* over the two Mongoose collections (users, expenses), together with the   *)
(* client-side total calculators of AddExpense.jsx and AdminDashboard.jsx.  *)
(*                                                                          *)
(* A handler with several awaited store calls is one action per store call; *)
(* a request between two of its store calls sits in `inflight`.             *)
(*                                                                          *)
(* Money: amount and taxAmount are counted in hundredths (1 = 0.01);        *)
(* totalAmount is counted in millionths, so amount*taxAmount/100 is exact.  *)
(***************************************************************************)
EXTENDS Integers, Sequences, FiniteSets, TLC

VARIABLES users, freshUsers, expenses, nextId, clock, inflight, resp, data, formData, shown,
          server, auth, submit, screen

vars == <<users, freshUsers, expenses, nextId, clock, inflight, resp, data, formData, shown,
          server, auth, submit, screen>>

\* What the server process and the store hold.
backend == <<users, freshUsers, expenses, nextId, clock, inflight, resp, data, server>>

\* What the two expense forms hold.
forms == <<formData, shown>>

(* ------------------------------ bounds --------------------------------- *)

\* Expense ids 1..MaxTx are handed out in creation order and never reused.
MaxTx == 2

\* Requests that may be suspended between two of their store calls.
MaxInflight == 2

\* Characters typed into one field of a form.
MaxLen == 3

\* Milliseconds that pass.
MaxClock == 1

\* Server processes started, one after the other.
MaxStarts == 2

\* The largest page and limit a list request asks for.
MaxPage == 2

(* ------------------------------ values --------------------------------- *)

UserIds == {"adm", "u1", "u2"}

AdminId == "adm"

AdminEmail == "admin@example.com"

\* A JSON body value: a number, a non-numeric string, or absent (undefined).
Num(n) == [k |-> "num", v |-> n]
Str == [k |-> "str", v |-> 0]
Undef == [k |-> "undef", v |-> 0]

\* A body string field that is absent.
Missing == "undefined"

\* The `/ 100` of the percentage branch of the total.
Hundred == 100

\* amount and taxAmount are in hundredths, totalAmount in millionths.
TotalScale == Hundred * Hundred

Scaled(x) == TotalScale * x

Range(f) == {f[i] : i \in DOMAIN f}

\* req.user when no middleware has set it.
NoUser == [id |-> "none", role |-> "none"]

(* --------------------------- request inputs ----------------------------- *)

\* Bodies of POST / and PUT /:id, and of the admin expense edit. Each also
\* carries a userId, a key none of the handlers reads.
ExpenseBodies ==
  { [description |-> "lunch", amount |-> Num(10000), type |-> "expense",
     taxType |-> "percentage", taxAmount |-> Num(1000), totalAmount |-> Undef,
     userId |-> "adm"],
    [description |-> "lunch", amount |-> Num(10000), type |-> "expense",
     taxType |-> "flat", taxAmount |-> Num(500), totalAmount |-> Undef,
     userId |-> "adm"],
    [description |-> "salary", amount |-> Num(4000), type |-> "income",
     taxType |-> "flat", taxAmount |-> Undef, totalAmount |-> Num(777),
     userId |-> "u1"],
    [description |-> "", amount |-> Str, type |-> "expense",
     taxType |-> "flat", taxAmount |-> Num(0), totalAmount |-> Undef,
     userId |-> "u2"],
    [description |-> Missing, amount |-> Num(2000), type |-> Missing,
     taxType |-> Missing, taxAmount |-> Undef, totalAmount |-> Undef,
     userId |-> "u2"] }

\* Bodies of PUT /admin/users/:id and of registration.
UserBodies ==
  { [name |-> "Ann", email |-> "a@x.io", role |-> "user"],
    [name |-> "Bob", email |-> "b@x.io", role |-> "user"],
    [name |-> "Bob", email |-> "b@x.io", role |-> "admin"] }

\* The bearer token a request carries. A valid token encodes the identity it
\* was issued for: the seeded admin's says admin, a registered user's says user.
ValidToken(u) ==
  [kind |-> "valid", id |-> u, role |-> IF u = AdminId THEN "admin" ELSE "user"]

BadTokens ==
  { [kind |-> "missing", id |-> "none", role |-> "none"],
    [kind |-> "malformed", id |-> "none", role |-> "none"],
    [kind |-> "expired", id |-> AdminId, role |-> "admin"],
    [kind |-> "tampered", id |-> "u1", role |-> "admin"] }

Tokens == {ValidToken(u) : u \in UserIds \ freshUsers} \cup BadTokens

TxIds == 1..MaxTx

\* page = parseInt(req.query.page) || 1
DefaultPage == 1

\* limit = parseInt(req.query.limit) || 10
DefaultLimit == 10

\* A query parameter: absent, not a number, or an integer from 0 up.
QueryValues == {Undef, Str} \cup {Num(n) : n \in 0..MaxPage}

\* A query parameter that may also be a negative integer.
SignedQueryValues == QueryValues \cup {Num(0 - n) : n \in 1..MaxPage}

(* ------------------------- auth middleware ------------------------------ *)

\* authenticate(token): the identity the token encodes, or Unauthenticated when
\* the token is missing, malformed, expired or tampered. Reads no store.
authenticate(tok) ==
  IF tok.kind = "valid"
  THEN [ok |-> TRUE, user |-> [id |-> tok.id, role |-> tok.role]]
  ELSE [ok |-> FALSE, user |-> NoUser]

(* ------------------------------ router ---------------------------------- *)

\* A path below /api/expenses is the sequence of its segments; "<id>" stands
\* for a segment that is an object id. The routes, in registration order.
RouteTable ==
  << [method |-> "POST",   path |-> <<>>,                          mw |-> <<"auth">>, handler |-> "create"],
     [method |-> "GET",    path |-> <<>>,                          mw |-> <<"auth">>, handler |-> "list"],
     [method |-> "GET",    path |-> <<"dashboard">>,               mw |-> <<"auth">>, handler |-> "dashboard"],
     [method |-> "GET",    path |-> <<":id">>,                     mw |-> <<"auth">>, handler |-> "getById"],
     [method |-> "PUT",    path |-> <<":id">>,                     mw |-> <<"auth">>, handler |-> "update"],
     [method |-> "DELETE", path |-> <<":id">>,                     mw |-> <<"auth">>, handler |-> "delete"],
     [method |-> "GET",    path |-> <<"admin", "users">>,          mw |-> <<"auth">>, handler |-> "listUsers"],
     [method |-> "PUT",    path |-> <<"admin", "users", ":id">>,   mw |-> <<"auth">>, handler |-> "updateUser"],
     [method |-> "DELETE", path |-> <<"admin", "users", ":id">>,   mw |-> <<"auth">>, handler |-> "deleteUser"],
     [method |-> "GET",    path |-> <<"admin", "all-expenses">>,   mw |-> <<"auth">>, handler |-> "listAllExpenses"],
     [method |-> "PUT",    path |-> <<"admin", "expense", ":id">>, mw |-> <<"auth">>, handler |-> "updateExpense"],
     [method |-> "DELETE", path |-> <<"admin", "expense", ":id">>, mw |-> <<"auth">>, handler |-> "deleteExpense"] >>

\* Express matches a pattern segment by segment; ":id" takes any one segment.
PathMatches(pattern, path) ==
  /\ Len(pattern) = Len(path)
  /\ \A i \in 1..Len(pattern) : pattern[i] = ":id" \/ pattern[i] = path[i]

\* The first route registered for the method whose pattern matches, or 0.
Dispatch(method, path) ==
  LET hits == {i \in 1..Len(RouteTable) :
                 /\ RouteTable[i].method = method
                 /\ PathMatches(RouteTable[i].path, path)}
  IN IF hits = {} THEN 0 ELSE CHOOSE i \in hits : \A j \in hits : i <= j

\* The request goes to the handler with no middleware before it.
Enter_HandlerFirst(method, path, tok) ==
  LET r == Dispatch(method, path)
  IN IF r = 0
     THEN [handler |-> "none", status |-> 404, user |-> NoUser, ran |-> FALSE, tok |-> tok.kind]
     ELSE [handler |-> RouteTable[r].handler, status |-> 0, user |-> NoUser, ran |-> TRUE,
           tok |-> tok.kind]

\* What reaches the handler: status 0 and req.user when the route's middleware
\* let the request through, else the response that ended it (404 when no route
\* matched, 401 from auth).
Enter(method, path, tok) ==
  LET r == Dispatch(method, path)
      a == authenticate(tok)
  IN IF r = 0
     THEN [handler |-> "none", status |-> 404, user |-> NoUser, ran |-> FALSE, tok |-> tok.kind]
     ELSE IF "auth" \in Range(RouteTable[r].mw) /\ ~a.ok
     THEN [handler |-> RouteTable[r].handler, status |-> 401, user |-> NoUser, ran |-> FALSE,
           tok |-> tok.kind]
     ELSE [handler |-> RouteTable[r].handler, status |-> 0,
           user |-> IF "auth" \in Range(RouteTable[r].mw) THEN a.user ELSE NoUser,
           ran |-> TRUE, tok |-> tok.kind]

(* --------------------------- Expense schema ----------------------------- *)

\* Number(x) || 1
NumberOr0_Or1(x) == IF x.k = "num" /\ x.v # 0 THEN x.v ELSE 1

\* Number(x) || 0
NumberOr0(x) == IF x.k = "num" THEN x.v ELSE 0

\* Total Calculator of the schema's save hook. With a and t in hundredths,
\* amount + amount*taxAmount/100 is Scaled(a) + a*t millionths.
computeTotal(amount, taxType, taxAmount) ==
  IF taxType = "percentage"
  THEN Scaled(amount) + amount * taxAmount
  ELSE Scaled(amount) + Scaled(taxAmount)

\* Schema minimum of amount, 0.01, in hundredths.
MinAmount == 1

\* Schema validation run by save(): description non-empty, amount >= 0.01.
ValidExpense(doc) ==
  /\ doc.description # Missing
  /\ doc.description # ""
  /\ doc.amount >= MinAmount

\* The save hook: totalAmount is derived from the three tax fields.
PreSave(doc) ==
  [doc EXCEPT !.totalAmount = computeTotal(doc.amount, doc.taxType, doc.taxAmount)]

\* expense.save(): what the route's call stores once validation has passed.
Save(doc) == PreSave(doc)

(* ---------------------------- store queries ---------------------------- *)

\* A find without the filter: everyone's Transactions.
OwnedBy_Anyone(uid) == DOMAIN expenses

\* The ids of the Transactions a filter { userId: uid } selects.
OwnedBy(uid) == {i \in DOMAIN expenses : expenses[i].userId = uid}

\* A find without the sort: the selected Transactions in any order.
NewestFirst_Unsorted(ids) ==
  {order \in [1..Cardinality(ids) -> ids] :
     \A i, j \in DOMAIN order : i # j => order[i] # order[j]}

\* sort({ createdAt: -1 }) of the selected Transactions: the orders the store
\* may return them in. Transactions with equal createdAt come in any order.
NewestFirst(ids) ==
  {order \in [1..Cardinality(ids) -> ids] :
     /\ \A i, j \in DOMAIN order : i # j => order[i] # order[j]
     /\ \A i, j \in DOMAIN order :
          i < j => expenses[order[i]].createdAt >= expenses[order[j]].createdAt}

\* A limit that forgets the skip: every page is the first page.
SkipLimit_NoSkip(order, skip, limit) ==
  SubSeq(order, 1, IF limit < Len(order) THEN limit ELSE Len(order))

\* limit(n) with n < 0 returns up to -n documents in one batch.
Abs(n) == IF n < 0 THEN 0 - n ELSE n

\* skip(skip).limit(limit) of a result, for skip >= 0.
SkipLimit(order, skip, limit) ==
  IF skip >= Len(order)
  THEN << >>
  ELSE SubSeq(order, skip + 1,
              IF skip + Abs(limit) < Len(order) THEN skip + Abs(limit) ELSE Len(order))

\* A returned Transaction: its _id with its stored fields.
Item(i) == [id |-> i, doc |-> expenses[i]]

Items(order) == [k \in DOMAIN order |-> Item(order[k])]

\* populate('userId', 'name email'): the owner's name and email, null when no
\* such User is stored.
Populated(item) ==
  [id |-> item.id, doc |-> item.doc,
   owner |-> IF item.doc.userId \in DOMAIN users
             THEN [name |-> users[item.doc.userId].name, email |-> users[item.doc.userId].email]
             ELSE [name |-> "null", email |-> "null"]]

\* The query without its userId filter.
FindOneOwned_AnyOwner(id, uid) == id \in DOMAIN expenses

\* Expense.findOne / findOneAndDelete filter { _id: id, userId: uid }.
FindOneOwned(id, uid) == id \in DOMAIN expenses /\ expenses[id].userId = uid

\* Expense.findByIdAndUpdate / findByIdAndDelete filter { _id: id }.
FindExpenseById(id) == id \in DOMAIN expenses

\* The email query without its _id exclusion.
FindOtherWithEmail_AnyUser(email, id) ==
  \E u \in DOMAIN users : users[u].email = email

\* User.findOne({ email, _id: { $ne: id } }): another user holds the email.
FindOtherWithEmail(email, id) ==
  \E u \in DOMAIN users : u # id /\ users[u].email = email

\* A store without the index.
DuplicateKey_NoIndex(email, id) == FALSE

\* The unique index on User.email: a write that would give a second user the
\* same email is rejected by the store (duplicate key).
DuplicateKey(email, id) ==
  \E u \in DOMAIN users : u # id /\ users[u].email = email

\* A deleteMany that removes nothing.
DeleteManyOwned_None(uid) == expenses

\* A delete that removes every document.
Without_Everything(f, x) == << >>

\* Expense.deleteMany({ userId: uid }).
DeleteManyOwned(uid) ==
  [i \in {j \in DOMAIN expenses : expenses[j].userId # uid} |-> expenses[i]]

Without(f, x) == [i \in DOMAIN f \ {x} |-> f[i]]

(* ------------------------------ requests -------------------------------- *)

Idle == [op |-> "idle"]

FreeSlots == {s \in 1..MaxInflight : inflight[s].op = "idle"}

\* The slot a newly suspended request takes.
Slot == CHOOSE s \in FreeSlots : \A t \in FreeSlots : s <= t

\* The response of the step just taken (status 0: the request is suspended at
\* a store call and has not answered yet). err names the failure, calls counts the store calls the
\* request has made, ran whether its handler body was entered.
\* A response whose data is payload. No response moves the clock or touches
\* the browser's forms.
ReplyWith(op, status, req, id, uid, calls, ran, err, payload) ==
  /\ resp' = [op |-> op, status |-> status, user |-> req.user, tok |-> req.tok,
              id |-> id, uid |-> uid, calls |-> calls, ran |-> ran, err |-> err]
  /\ data' = payload
  /\ UNCHANGED <<clock, formData, shown, server, auth, submit, screen>>

\* A response whose data the model does not look at.
NoData == [kind |-> "none"]

Reply(op, status, req, id, uid, calls, ran, err) ==
  ReplyWith(op, status, req, id, uid, calls, ran, err, NoData)

\* A request that ended before its handler: 404 from the router, 401 from auth.
Rejected(op, e) ==
  Reply(op, e.status, e, 0, "none", 0, FALSE,
        IF e.status = 404 THEN "NoRoute" ELSE "Unauthenticated")

(* ----------------------------- user routes ------------------------------ *)

\* The createdAt the schema's timestamps give a document made now.
Now == clock

\* A new Expense that takes its userId from the body.
NewExpense_FromBody(body, uid) ==
  [userId |-> body.userId,
   description |-> body.description,
   amount |-> NumberOr0(body.amount),
   type |-> body.type,
   taxType |-> IF body.taxType = Missing THEN "flat" ELSE body.taxType,
   taxAmount |-> NumberOr0(body.taxAmount),
   totalAmount |-> 0,
   createdAt |-> Now]

\* new Expense({ description, amount: Number(amount) || 0, type, taxType,
\*               taxAmount: Number(taxAmount) || 0, userId: req.user.id })
NewExpense(body, uid) ==
  [userId |-> uid,
   description |-> body.description,
   amount |-> NumberOr0(body.amount),
   type |-> body.type,
   taxType |-> IF body.taxType = Missing THEN "flat" ELSE body.taxType,
   taxAmount |-> NumberOr0(body.taxAmount),
   totalAmount |-> 0,
   createdAt |-> Now]

\* POST /
UserCreate(tok, body, fail) ==
  LET e == Enter("POST", <<>>, tok)
      doc == NewExpense(body, e.user.id)
  IN /\ UNCHANGED <<users, freshUsers, inflight>>
     /\ IF e.status # 0
        THEN Rejected("create", e) /\ UNCHANGED <<expenses, nextId>>
        ELSE IF e.user = NoUser
        THEN Reply("create", 400, e, 0, "none", 0, TRUE, "TypeError") /\ UNCHANGED <<expenses, nextId>>
        ELSE IF ~ValidExpense(doc)
        THEN Reply("create", 400, e, 0, "none", 0, TRUE, "ValidationError") /\ UNCHANGED <<expenses, nextId>>
        ELSE IF fail
        THEN Reply("create", 400, e, 0, "none", 1, TRUE, "StoreUnavailable") /\ UNCHANGED <<expenses, nextId>>
        ELSE /\ nextId <= MaxTx
             /\ expenses' = (nextId :> Save(doc)) @@ expenses
             /\ nextId' = nextId + 1
             /\ Reply("create", 201, e, nextId, "none", 1, TRUE, "none")

\* parseInt(x) || d of a query parameter: d when it is absent, not a number,
\* or 0.
ParseIntOr(x, d) == IF x.k = "num" /\ x.v # 0 THEN x.v ELSE d

\* Math.ceil(a / b) for a >= 0 and b # 0.
Ceil(a, b) == IF b > 0 THEN (a + b - 1) \div b ELSE 0 - (a \div (0 - b))

\* GET /, up to its Expense.find(...).sort(...).skip(...).limit(...). The
\* store rejects a negative skip (BadValue).
UserList(tok, pageQ, limitQ, fail) ==
  LET e == Enter("GET", <<>>, tok)
      page == ParseIntOr(pageQ, DefaultPage)
      limit == ParseIntOr(limitQ, DefaultLimit)
      skip == (page - 1) * limit
  IN /\ UNCHANGED <<users, freshUsers, expenses, nextId>>
     /\ IF e.status # 0 THEN Rejected("list", e) /\ UNCHANGED inflight
        ELSE IF e.user = NoUser
        THEN Reply("list", 500, e, 0, "none", 0, TRUE, "TypeError") /\ UNCHANGED inflight
        ELSE IF fail
        THEN Reply("list", 500, e, 0, "none", 1, TRUE, "StoreUnavailable") /\ UNCHANGED inflight
        ELSE IF skip < 0
        THEN Reply("list", 500, e, 0, "none", 1, TRUE, "BadValue") /\ UNCHANGED inflight
        ELSE /\ FreeSlots # {}
             /\ \E order \in NewestFirst(OwnedBy(e.user.id)) :
                  inflight' = [inflight EXCEPT ![Slot] =
                                 [op |-> "list", user |-> e.user, tok |-> e.tok,
                                  query |-> [page |-> pageQ, limit |-> limitQ],
                                  page |-> page, limit |-> limit,
                                  found |-> Items(SkipLimit(order, skip, limit))]]
             /\ Reply("list", 0, e, 0, "none", 1, TRUE, "none")

\* GET /, its Expense.countDocuments and the response.
UserListCount(s, fail) ==
  LET r == inflight[s]
      total == Cardinality(OwnedBy(r.user.id))
  IN /\ r.op = "list"
     /\ inflight' = [inflight EXCEPT ![s] = Idle]
     /\ UNCHANGED <<users, freshUsers, expenses, nextId>>
     /\ IF fail
        THEN Reply("list", 500, r, 0, "none", 2, TRUE, "StoreUnavailable")
        ELSE ReplyWith("list", 200, r, 0, "none", 2, TRUE, "none",
                       [expenses |-> r.found,
                        currentPage |-> r.page,
                        totalPages |-> Ceil(total, r.limit),
                        totalExpenses |-> total])

\* reduce((sum, e) => sum + e.totalAmount, 0) over the Transactions ids.
RECURSIVE SumTotal(_)
SumTotal(ids) ==
  IF ids = {} THEN 0
  ELSE LET i == CHOOSE x \in ids : TRUE
       IN expenses[i].totalAmount + SumTotal(ids \ {i})

\* GET /dashboard
UserDashboard(tok, fail) ==
  LET e == Enter("GET", <<"dashboard">>, tok)
      mine == OwnedBy(e.user.id)
      totalIncome == SumTotal({i \in mine : expenses[i].type = "income"})
      totalExpense == SumTotal({i \in mine : expenses[i].type = "expense"})
  IN /\ UNCHANGED <<users, freshUsers, expenses, nextId, inflight>>
     /\ IF e.status # 0 THEN Rejected("dashboard", e)
        ELSE IF e.user = NoUser THEN Reply("dashboard", 500, e, 0, "none", 0, TRUE, "TypeError")
        ELSE IF fail THEN Reply("dashboard", 500, e, 0, "none", 1, TRUE, "StoreUnavailable")
        ELSE ReplyWith("dashboard", 200, e, 0, "none", 1, TRUE, "none",
                       [totalIncome |-> totalIncome,
                        totalExpense |-> totalExpense,
                        balance |-> totalIncome - totalExpense,
                        totalRecords |-> Cardinality(mine)])

\* GET /:id
UserGetById(tok, id, fail) ==
  LET e == Enter("GET", <<"<id>">>, tok)
  IN /\ UNCHANGED <<users, freshUsers, expenses, nextId, inflight>>
     /\ IF e.status # 0 THEN Rejected("getById", e)
        ELSE IF e.user = NoUser THEN Reply("getById", 500, e, id, "none", 0, TRUE, "TypeError")
        ELSE IF fail THEN Reply("getById", 500, e, id, "none", 1, TRUE, "StoreUnavailable")
        ELSE IF ~FindOneOwned(id, e.user.id)
        THEN Reply("getById", 404, e, id, "none", 1, TRUE, "NotFound")
        ELSE Reply("getById", 200, e, id, "none", 1, TRUE, "none")

\* PUT /:id, up to its findOne.
UserUpdateFind(tok, id, body, fail) ==
  LET e == Enter("PUT", <<"<id>">>, tok)
  IN /\ UNCHANGED <<users, freshUsers, expenses, nextId>>
     /\ IF e.status # 0 THEN Rejected("update", e) /\ UNCHANGED inflight
        ELSE IF e.user = NoUser
        THEN Reply("update", 400, e, id, "none", 0, TRUE, "TypeError") /\ UNCHANGED inflight
        ELSE IF fail
        THEN Reply("update", 400, e, id, "none", 1, TRUE, "StoreUnavailable") /\ UNCHANGED inflight
        ELSE IF ~FindOneOwned(id, e.user.id)
        THEN Reply("update", 404, e, id, "none", 1, TRUE, "NotFound") /\ UNCHANGED inflight
        ELSE /\ FreeSlots # {}
             /\ inflight' = [inflight EXCEPT ![Slot] =
                               [op |-> "update", user |-> e.user, tok |-> e.tok, id |-> id,
                                loaded |-> expenses[id], body |-> body]]
             /\ Reply("update", 0, e, id, "none", 1, TRUE, "none")

\* The assignments without the one to taxAmount.
Assigned_KeepTaxAmount(loaded, body) ==
  [loaded EXCEPT !.description = body.description,
                 !.amount = NumberOr0(body.amount),
                 !.type = body.type,
                 !.taxType = body.taxType]

\* Assignments that keep the loaded value of a field the body omits.
Assigned_Merge(loaded, body) ==
  [loaded EXCEPT
     !.description = IF body.description = Missing THEN @ ELSE body.description,
     !.amount = IF body.amount = Undef THEN @ ELSE NumberOr0(body.amount),
     !.type = IF body.type = Missing THEN @ ELSE body.type,
     !.taxType = IF body.taxType = Missing THEN @ ELSE body.taxType,
     !.taxAmount = IF body.taxAmount = Undef THEN @ ELSE NumberOr0(body.taxAmount)]

\* The five assignments of PUT /:id on the loaded document.
Assigned(loaded, body) ==
  [loaded EXCEPT !.description = body.description,
                 !.amount = NumberOr0(body.amount),
                 !.type = body.type,
                 !.taxType = body.taxType,
                 !.taxAmount = NumberOr0(body.taxAmount)]

\* save() of a loaded document sends only the paths whose value changed since
\* it was loaded; the other paths keep what the store holds now.
WriteModified(stored, loaded, new) ==
  [f \in DOMAIN stored |-> IF new[f] # loaded[f] THEN new[f] ELSE stored[f]]

\* A save() that writes the whole document back, stored or not.
UserUpdateSave_Upsert(s, fail) ==
  LET r == inflight[s]
      new == Assigned(r.loaded, r.body)
      saved == Save(new)
  IN /\ r.op = "update"
     /\ inflight' = [inflight EXCEPT ![s] = Idle]
     /\ UNCHANGED <<users, freshUsers, nextId>>
     /\ IF ~ValidExpense(new)
        THEN Reply("update", 400, r, r.id, "none", 1, TRUE, "ValidationError") /\ UNCHANGED expenses
        ELSE IF fail
        THEN Reply("update", 400, r, r.id, "none", 2, TRUE, "StoreUnavailable") /\ UNCHANGED expenses
        ELSE /\ expenses' = (r.id :> saved) @@ Without(expenses, r.id)
             /\ Reply("update", 200, r, r.id, "none", 2, TRUE, "none")

\* PUT /:id, its save(): validation, the save hook, then the write. The write
\* updates the stored document by its _id and fails when there is none.
UserUpdateSave(s, fail) ==
  LET r == inflight[s]
      new == Assigned(r.loaded, r.body)
      saved == Save(new)
  IN /\ r.op = "update"
     /\ inflight' = [inflight EXCEPT ![s] = Idle]
     /\ UNCHANGED <<users, freshUsers, nextId>>
     /\ IF ~ValidExpense(new)
        THEN Reply("update", 400, r, r.id, "none", 1, TRUE, "ValidationError") /\ UNCHANGED expenses
        ELSE IF saved = r.loaded
        THEN Reply("update", 200, r, r.id, "none", 1, TRUE, "none") /\ UNCHANGED expenses
        ELSE IF fail
        THEN Reply("update", 400, r, r.id, "none", 2, TRUE, "StoreUnavailable") /\ UNCHANGED expenses
        ELSE IF r.id \notin DOMAIN expenses
        THEN Reply("update", 400, r, r.id, "none", 2, TRUE, "DocumentNotFound") /\ UNCHANGED expenses
        ELSE /\ expenses' = [expenses EXCEPT ![r.id] = WriteModified(@, r.loaded, saved)]
             /\ Reply("update", 200, r, r.id, "none", 2, TRUE, "none")

\* DELETE /:id
UserDelete(tok, id, fail) ==
  LET e == Enter("DELETE", <<"<id>">>, tok)
  IN /\ UNCHANGED <<users, freshUsers, nextId, inflight>>
     /\ IF e.status # 0 THEN Rejected("delete", e) /\ UNCHANGED expenses
        ELSE IF e.user = NoUser
        THEN Reply("delete", 500, e, id, "none", 0, TRUE, "TypeError") /\ UNCHANGED expenses
        ELSE IF fail
        THEN Reply("delete", 500, e, id, "none", 1, TRUE, "StoreUnavailable") /\ UNCHANGED expenses
        ELSE IF ~FindOneOwned(id, e.user.id)
        THEN Reply("delete", 404, e, id, "none", 1, TRUE, "NotFound") /\ UNCHANGED expenses
        ELSE /\ expenses' = Without(expenses, id)
             /\ Reply("delete", 200, e, id, "none", 1, TRUE, "none")

(* ----------------------------- admin routes ----------------------------- *)

\* A gate that lets every role through.
NotAdmin_Never(user) == FALSE

\* The gate at the top of every admin handler: req.user.role !== 'admin'.
NotAdmin(user) == user.role # "admin"

\* GET /admin/users
AdminListUsers(tok, fail) ==
  LET e == Enter("GET", <<"admin", "users">>, tok)
  IN /\ UNCHANGED <<users, freshUsers, expenses, nextId, inflight>>
     /\ IF e.status # 0 THEN Rejected("listUsers", e)
        ELSE IF e.user = NoUser THEN Reply("listUsers", 500, e, 0, "none", 0, TRUE, "TypeError")
        ELSE IF NotAdmin(e.user) THEN Reply("listUsers", 403, e, 0, "none", 0, TRUE, "Forbidden")
        ELSE IF fail THEN Reply("listUsers", 500, e, 0, "none", 1, TRUE, "StoreUnavailable")
        ELSE Reply("listUsers", 200, e, 0, "none", 1, TRUE, "none")

\* PUT /admin/users/:id, up to its User.findOne (the email check).
AdminUpdateUserCheck(tok, uid, body, fail) ==
  LET e == Enter("PUT", <<"admin", "users", "<id>">>, tok)
  IN /\ UNCHANGED <<users, freshUsers, expenses, nextId>>
     /\ IF e.status # 0 THEN Rejected("updateUser", e) /\ UNCHANGED inflight
        ELSE IF e.user = NoUser
        THEN Reply("updateUser", 400, e, 0, uid, 0, TRUE, "TypeError") /\ UNCHANGED inflight
        ELSE IF NotAdmin(e.user)
        THEN Reply("updateUser", 403, e, 0, uid, 0, TRUE, "Forbidden") /\ UNCHANGED inflight
        ELSE IF fail
        THEN Reply("updateUser", 400, e, 0, uid, 1, TRUE, "StoreUnavailable") /\ UNCHANGED inflight
        ELSE IF FindOtherWithEmail(body.email, uid)
        THEN Reply("updateUser", 400, e, 0, uid, 1, TRUE, "DuplicateEmail") /\ UNCHANGED inflight
        ELSE /\ FreeSlots # {}
             /\ inflight' = [inflight EXCEPT ![Slot] =
                               [op |-> "updateUser", user |-> e.user, tok |-> e.tok, uid |-> uid,
                                body |-> body]]
             /\ Reply("updateUser", 0, e, 0, uid, 1, TRUE, "none")

\* PUT /admin/users/:id, its User.findByIdAndUpdate(id, { name, email, role }).
AdminUpdateUserWrite(s, fail) ==
  LET r == inflight[s]
  IN /\ r.op = "updateUser"
     /\ inflight' = [inflight EXCEPT ![s] = Idle]
     /\ UNCHANGED <<freshUsers, expenses, nextId>>
     /\ IF fail
        THEN Reply("updateUser", 400, r, 0, r.uid, 2, TRUE, "StoreUnavailable") /\ UNCHANGED users
        ELSE IF r.uid \notin DOMAIN users
        THEN Reply("updateUser", 404, r, 0, r.uid, 2, TRUE, "NotFound") /\ UNCHANGED users
        ELSE IF DuplicateKey(r.body.email, r.uid)
        THEN Reply("updateUser", 400, r, 0, r.uid, 2, TRUE, "DuplicateKey") /\ UNCHANGED users
        ELSE /\ users' = [users EXCEPT ![r.uid] = r.body]
             /\ Reply("updateUser", 200, r, 0, r.uid, 2, TRUE, "none")

\* DELETE /admin/users/:id, up to its User.findByIdAndDelete.
AdminDeleteUserRecord(tok, uid, fail) ==
  LET e == Enter("DELETE", <<"admin", "users", "<id>">>, tok)
  IN /\ UNCHANGED <<freshUsers, expenses, nextId>>
     /\ IF e.status # 0 THEN Rejected("deleteUser", e) /\ UNCHANGED <<users, inflight>>
        ELSE IF e.user = NoUser
        THEN Reply("deleteUser", 500, e, 0, uid, 0, TRUE, "TypeError") /\ UNCHANGED <<users, inflight>>
        ELSE IF NotAdmin(e.user)
        THEN Reply("deleteUser", 403, e, 0, uid, 0, TRUE, "Forbidden") /\ UNCHANGED <<users, inflight>>
        ELSE IF fail
        THEN Reply("deleteUser", 500, e, 0, uid, 1, TRUE, "StoreUnavailable") /\ UNCHANGED <<users, inflight>>
        ELSE IF uid \notin DOMAIN users
        THEN Reply("deleteUser", 404, e, 0, uid, 1, TRUE, "NotFound") /\ UNCHANGED <<users, inflight>>
        ELSE /\ FreeSlots # {}
             /\ users' = Without(users, uid)
             /\ inflight' = [inflight EXCEPT ![Slot] =
                               [op |-> "deleteUser", user |-> e.user, tok |-> e.tok,
                                uid |-> uid]]
             /\ Reply("deleteUser", 0, e, 0, uid, 1, TRUE, "none")

\* DELETE /admin/users/:id, its Expense.deleteMany({ userId }).
AdminDeleteUserExpenses(s, fail) ==
  LET r == inflight[s]
  IN /\ r.op = "deleteUser"
     /\ inflight' = [inflight EXCEPT ![s] = Idle]
     /\ UNCHANGED <<users, freshUsers, nextId>>
     /\ IF fail
        THEN Reply("deleteUser", 500, r, 0, r.uid, 2, TRUE, "StoreUnavailable") /\ UNCHANGED expenses
        ELSE /\ expenses' = DeleteManyOwned(r.uid)
             /\ Reply("deleteUser", 200, r, 0, r.uid, 2, TRUE, "none")

\* GET /admin/all-expenses
AdminListAllExpenses(tok, fail) ==
  LET e == Enter("GET", <<"admin", "all-expenses">>, tok)
  IN /\ UNCHANGED <<users, freshUsers, expenses, nextId, inflight>>
     /\ IF e.status # 0 THEN Rejected("listAllExpenses", e)
        ELSE IF e.user = NoUser THEN Reply("listAllExpenses", 500, e, 0, "none", 0, TRUE, "TypeError")
        ELSE IF NotAdmin(e.user) THEN Reply("listAllExpenses", 403, e, 0, "none", 0, TRUE, "Forbidden")
        ELSE IF fail THEN Reply("listAllExpenses", 500, e, 0, "none", 1, TRUE, "StoreUnavailable")
        ELSE \E order \in NewestFirst(DOMAIN expenses) :
               ReplyWith("listAllExpenses", 200, e, 0, "none", 1, TRUE, "none",
                         [expenses |-> [k \in DOMAIN order |-> Populated(Item(order[k]))]])

\* A body number that cannot be cast to the schema's Number.
CastError(body) ==
  body.amount.k = "str" \/ body.taxAmount.k = "str" \/ body.totalAmount.k = "str"

\* An update document that also carries the body's userId.
AdminSet_WithOwner(doc, body) ==
  [doc EXCEPT
     !.userId = body.userId,
     !.description = IF body.description = Missing THEN @ ELSE body.description,
     !.amount = IF body.amount.k = "num" THEN body.amount.v ELSE @,
     !.type = IF body.type = Missing THEN @ ELSE body.type,
     !.taxType = IF body.taxType = Missing THEN @ ELSE body.taxType,
     !.taxAmount = IF body.taxAmount.k = "num" THEN body.taxAmount.v ELSE @,
     !.totalAmount = IF body.totalAmount.k = "num" THEN Scaled(body.totalAmount.v) ELSE @]

\* findByIdAndUpdate(id, { description, amount, type, taxType, taxAmount,
\* totalAmount }): an update document's undefined keys are dropped, the others
\* are set as given; no save hook and no validator runs.
AdminSet(doc, body) ==
  [doc EXCEPT
     !.description = IF body.description = Missing THEN @ ELSE body.description,
     !.amount = IF body.amount.k = "num" THEN body.amount.v ELSE @,
     !.type = IF body.type = Missing THEN @ ELSE body.type,
     !.taxType = IF body.taxType = Missing THEN @ ELSE body.taxType,
     !.taxAmount = IF body.taxAmount.k = "num" THEN body.taxAmount.v ELSE @,
     !.totalAmount = IF body.totalAmount.k = "num" THEN Scaled(body.totalAmount.v) ELSE @]

\* PUT /admin/expense/:id
AdminUpdateExpense(tok, id, body, fail) ==
  LET e == Enter("PUT", <<"admin", "expense", "<id>">>, tok)
  IN /\ UNCHANGED <<users, freshUsers, nextId, inflight>>
     /\ IF e.status # 0 THEN Rejected("updateExpense", e) /\ UNCHANGED expenses
        ELSE IF e.user = NoUser
        THEN Reply("updateExpense", 400, e, id, "none", 0, TRUE, "TypeError") /\ UNCHANGED expenses
        ELSE IF NotAdmin(e.user)
        THEN Reply("updateExpense", 403, e, id, "none", 0, TRUE, "Forbidden") /\ UNCHANGED expenses
        ELSE IF CastError(body)
        THEN Reply("updateExpense", 400, e, id, "none", 0, TRUE, "CastError") /\ UNCHANGED expenses
        ELSE IF fail
        THEN Reply("updateExpense", 400, e, id, "none", 1, TRUE, "StoreUnavailable") /\ UNCHANGED expenses
        ELSE IF ~FindExpenseById(id)
        THEN Reply("updateExpense", 404, e, id, "none", 1, TRUE, "NotFound") /\ UNCHANGED expenses
        ELSE /\ expenses' = [expenses EXCEPT ![id] = AdminSet(@, body)]
             /\ Reply("updateExpense", 200, e, id, "none", 1, TRUE, "none")

\* DELETE /admin/expense/:id
AdminDeleteExpense(tok, id, fail) ==
  LET e == Enter("DELETE", <<"admin", "expense", "<id>">>, tok)
  IN /\ UNCHANGED <<users, freshUsers, nextId, inflight>>
     /\ IF e.status # 0 THEN Rejected("deleteExpense", e) /\ UNCHANGED expenses
        ELSE IF e.user = NoUser
        THEN Reply("deleteExpense", 500, e, id, "none", 0, TRUE, "TypeError") /\ UNCHANGED expenses
        ELSE IF NotAdmin(e.user)
        THEN Reply("deleteExpense", 403, e, id, "none", 0, TRUE, "Forbidden") /\ UNCHANGED expenses
        ELSE IF fail
        THEN Reply("deleteExpense", 500, e, id, "none", 1, TRUE, "StoreUnavailable") /\ UNCHANGED expenses
        ELSE IF ~FindExpenseById(id)
        THEN Reply("deleteExpense", 404, e, id, "none", 1, TRUE, "NotFound") /\ UNCHANGED expenses
        ELSE /\ expenses' = Without(expenses, id)
             /\ Reply("deleteExpense", 200, e, id, "none", 1, TRUE, "none")

\* The admin dashboard's createExpense: POST /admin/create with the form's
\* userId. The router decides what becomes of it.
AdminCreateExpense(tok, uid, body) ==
  LET e == Enter("POST", <<"admin", "create">>, tok)
  IN /\ e.handler = "none"
     /\ UNCHANGED <<users, freshUsers, expenses, nextId, inflight>>
     /\ Reply("createExpenseFor", e.status, e, 0, uid, 0, FALSE, "NoRoute")

(* ------------------------------ startup --------------------------------- *)
(* server.js: initializeApp() awaits connectDB() and createAdminUser(); its  *)
(* then-callback calls app.listen. The process is at pc; connected, seeded   *)
(* and listened record what it has done since it started, code its exit      *)
(* code, starts how many processes have been started.                        *)

\* A process that has just been started.
Started(n) ==
  [pc |-> "connect", connected |-> FALSE, seeded |-> FALSE, listened |-> FALSE,
   code |-> 0, starts |-> n]

\* A process that is listening.
Running ==
  [pc |-> "running", connected |-> TRUE, seeded |-> TRUE, listened |-> TRUE,
   code |-> 0, starts |-> 1]

\* The process accepts requests.
Serving == server.pc = "running"

\* A connectDB whose catch only logs.
ConnectDB_NoExit(ok) ==
  /\ server.pc = "connect"
  /\ server' = [server EXCEPT !.pc = "seedFind", !.connected = ok]
  /\ UNCHANGED <<users, freshUsers, expenses, nextId, clock, inflight, resp, data,
                 formData, shown, auth, submit, screen>>

\* connectDB: mongoose.connect resolves, or rejects and the catch calls
\* process.exit(1).
ConnectDB(ok) ==
  /\ server.pc = "connect"
  /\ server' = IF ok THEN [server EXCEPT !.pc = "seedFind", !.connected = TRUE]
                     ELSE [server EXCEPT !.pc = "exited", !.code = 1]
  /\ UNCHANGED <<users, freshUsers, expenses, nextId, clock, inflight, resp, data,
                 formData, shown, auth, submit, screen>>

\* createAdminUser, its User.findOne({ email: 'admin@example.com' }): a
\* rejection is caught and logged, an existing user ends the seeding, else the
\* new User is built and its save() awaited.
CreateAdminFind(fail) ==
  /\ server.pc = "seedFind"
  /\ server' = IF fail \/ (\E u \in DOMAIN users : users[u].email = AdminEmail)
               THEN [server EXCEPT !.pc = "listen", !.seeded = TRUE]
               ELSE [server EXCEPT !.pc = "seedSave"]
  /\ UNCHANGED <<users, freshUsers, expenses, nextId, clock, inflight, resp, data,
                 formData, shown, auth, submit, screen>>

\* The _id of the admin a seeding creates.
SeedId == IF AdminId \in freshUsers THEN AdminId ELSE CHOOSE x \in freshUsers : TRUE

\* A createAdminUser that lets the rejection of save() escape: initializeApp
\* rejects and its catch calls process.exit(1).
CreateAdminSave_Rethrow(fail) ==
  /\ server.pc = "seedSave"
  /\ freshUsers # {}
  /\ IF fail \/ DuplicateKey(AdminEmail, SeedId)
     THEN /\ server' = [server EXCEPT !.pc = "exited", !.code = 1]
          /\ UNCHANGED <<users, freshUsers>>
     ELSE /\ server' = [server EXCEPT !.pc = "listen", !.seeded = TRUE]
          /\ users' = (SeedId :> [name |-> "System Admin", email |-> AdminEmail, role |-> "admin"])
                       @@ users
          /\ freshUsers' = freshUsers \ {SeedId}
  /\ UNCHANGED <<expenses, nextId, clock, inflight, resp, data, formData, shown, auth, submit, screen>>

\* createAdminUser, its adminUser.save(): a rejection (the store, or the
\* unique index when the email was taken meanwhile) is caught and logged.
CreateAdminSave(fail) ==
  /\ server.pc = "seedSave"
  /\ freshUsers # {}
  /\ server' = [server EXCEPT !.pc = "listen", !.seeded = TRUE]
  /\ IF fail \/ DuplicateKey(AdminEmail, SeedId)
     THEN UNCHANGED <<users, freshUsers>>
     ELSE /\ users' = (SeedId :> [name |-> "System Admin", email |-> AdminEmail, role |-> "admin"])
                       @@ users
          /\ freshUsers' = freshUsers \ {SeedId}
  /\ UNCHANGED <<expenses, nextId, clock, inflight, resp, data, formData, shown, auth, submit, screen>>

\* initializeApp().then(() => app.listen(PORT, ...))
Listen ==
  /\ server.pc = "listen"
  /\ server' = [server EXCEPT !.pc = "running", !.listened = TRUE]
  /\ UNCHANGED <<users, freshUsers, expenses, nextId, clock, inflight, resp, data,
                 formData, shown, auth, submit, screen>>

\* process.on('SIGINT'): the connection is closed and the process exits; the
\* requests it was serving are gone with it.
Shutdown ==
  /\ server.pc # "exited"
  /\ server' = [server EXCEPT !.pc = "exited", !.code = 0]
  /\ inflight' = [s \in 1..MaxInflight |-> Idle]
  /\ UNCHANGED <<users, freshUsers, expenses, nextId, clock, resp, data,
                 formData, shown, auth, submit, screen>>

\* The server is started again on the same store.
Restart ==
  /\ server.pc = "exited"
  /\ server.starts < MaxStarts
  /\ server' = Started(server.starts + 1)
  /\ UNCHANGED <<users, freshUsers, expenses, nextId, clock, inflight, resp, data,
                 formData, shown, auth, submit, screen>>

(* -------------------------------- time ---------------------------------- *)

\* A millisecond passes: Transactions created from now on get a later
\* createdAt. Creates between two ticks get the same one.
Tick ==
  /\ clock < MaxClock
  /\ clock' = clock + 1
  /\ UNCHANGED <<users, freshUsers, expenses, nextId, inflight, resp, data, formData, shown,
                 server, auth, submit, screen>>

(* ------------------------------ accounts -------------------------------- *)

\* A request that carries no token.
Anonymous == [user |-> NoUser, tok |-> "none"]

\* register(name, email, password): DuplicateEmail when the email is taken,
\* else a new User with role user.
Register(body) ==
  LET u == CHOOSE x \in freshUsers : TRUE
  IN /\ freshUsers # {}
     /\ UNCHANGED <<expenses, nextId, inflight>>
     /\ IF DuplicateKey(body.email, u)
        THEN /\ Reply("register", 400, Anonymous, 0, "none", 1, TRUE, "DuplicateEmail")
             /\ UNCHANGED <<users, freshUsers>>
        ELSE /\ users' = (u :> [body EXCEPT !.role = "user"]) @@ users
             /\ freshUsers' = freshUsers \ {u}
             /\ Reply("register", 201, Anonymous, 0, u, 1, TRUE, "none")

(* ------------------------- client calculators -------------------------- *)
(* The expense forms hold what was typed, as text. A text is the sequence    *)
(* of its characters; a decimal number m / 10^d is the record [m, d] with    *)
(* no trailing zero in m when d > 0.                                         *)

\* Characters that can be typed into a field: a digit, the point, a letter.
Keys == {"5", ".", "x"}

Texts == UNION {[1..n -> Keys] : n \in 0..MaxLen}

DigitChars == <<"0", "1", "2", "3", "4", "5", "6", "7", "8", "9">>

IsDigit(c) == c \in Range(DigitChars)

DigitValue(c) == (CHOOSE i \in DOMAIN DigitChars : DigitChars[i] = c) - 1

NaN == [nan |-> TRUE, m |-> 0, d |-> 0]

Zero == [nan |-> FALSE, m |-> 0, d |-> 0]

RECURSIVE Pow10(_)
Pow10(n) == IF n = 0 THEN 1 ELSE 10 * Pow10(n - 1)

RECURSIVE Normal(_)
Normal(x) == IF x.d > 0 /\ x.m % 10 = 0 THEN Normal([x EXCEPT !.m = x.m \div 10, !.d = x.d - 1]) ELSE x

Plus(x, y) ==
  LET d == IF x.d > y.d THEN x.d ELSE y.d
  IN Normal([nan |-> FALSE, m |-> x.m * Pow10(d - x.d) + y.m * Pow10(d - y.d), d |-> d])

Times(x, y) == Normal([nan |-> FALSE, m |-> x.m * y.m, d |-> x.d + y.d])

Over100(x) == Normal([nan |-> FALSE, m |-> x.m, d |-> x.d + 2])

\* The length of the longest run of digits of text starting at position i.
RECURSIVE DigitRun(_, _)
DigitRun(text, i) ==
  IF i <= Len(text) /\ IsDigit(text[i]) THEN 1 + DigitRun(text, i + 1) ELSE 0

\* The number written by the digits text[i .. i + n - 1].
RECURSIVE DigitsValue(_, _, _)
DigitsValue(text, i, n) ==
  IF n = 0 THEN 0 ELSE 10 * DigitsValue(text, i, n - 1) + DigitValue(text[i + n - 1])

\* parseFloat: the number written by the longest prefix of the text that is
\* a decimal literal (digits, then optionally a point and digits, with at
\* least one digit), NaN when there is no such prefix.
parseFloat(text) ==
  LET whole == DigitRun(text, 1)
      point == whole + 1 <= Len(text) /\ text[whole + 1] = "."
      frac  == IF point THEN DigitRun(text, whole + 2) ELSE 0
  IN IF whole + frac = 0
     THEN NaN
     ELSE Normal([nan |-> FALSE,
                  m |-> DigitsValue(text, 1, whole) * Pow10(frac) + DigitsValue(text, whole + 2, frac),
                  d |-> frac])

\* x || 0: NaN and 0 are falsy.
OrZero(x) == IF x.nan \/ x.m = 0 THEN Zero ELSE x

AddExpense_calculateTotal(form) ==
  LET amount == OrZero(parseFloat(form.amount))
      tax    == OrZero(parseFloat(form.taxAmount))
  IN IF form.taxType = "percentage"
     THEN Plus(amount, Over100(Times(amount, tax)))
     ELSE Plus(amount, tax)

AdminDashboard_calculateTotal_Flat(form) ==
  Plus(OrZero(parseFloat(form.amount)), OrZero(parseFloat(form.taxAmount)))

AdminDashboard_calculateTotal(form) ==
  LET amount == OrZero(parseFloat(form.amount))
      tax    == OrZero(parseFloat(form.taxAmount))
  IN IF form.taxType = "percentage"
     THEN Plus(amount, Over100(Times(amount, tax)))
     ELSE Plus(amount, tax)

TaxTypes == {"flat", "percentage", "none"}

Forms == [amount : Texts, taxType : TaxTypes, taxAmount : Texts]

InitialForm == [amount |-> << >>, taxType |-> "flat", taxAmount |-> <<"0">>]

NothingShown == [AddExpense |-> NaN, AdminDashboard |-> NaN]

\* AddExpense renders the total of its form.
AddExpenseTotal ==
  /\ shown' = [shown EXCEPT !.AddExpense = AddExpense_calculateTotal(formData)]
  /\ UNCHANGED <<backend, formData, auth, submit, screen>>

\* AdminDashboard totals its expense form when the form is submitted.
AdminDashboardTotal ==
  /\ shown' = [shown EXCEPT !.AdminDashboard = AdminDashboard_calculateTotal(formData)]
  /\ UNCHANGED <<backend, formData, auth, submit, screen>>

(* ------------------------------ browser --------------------------------- *)

(* AuthProvider: user and loading are its React state, token and stored the  *)
(* localStorage items 'token' and 'user', header the axios default            *)
(* Authorization header, checked whether its mount effect has run, pending    *)
(* the login requests in flight.                                              *)

\* An item or header that is not there, and the state null.
Absent == [text |-> "absent"]

Null == [id |-> "null", role |-> "null"]

\* The user a login response carries.
View(u) == [id |-> u, role |-> IF u = AdminId THEN "admin" ELSE "user"]

\* JSON.stringify of a user.
Stringify(v) == [text |-> "json", of |-> v]

\* What localStorage may hold under 'user' when the page loads: nothing, a
\* stringified user, the text null, or text that is not JSON.
StoredUsers ==
  {Absent, [text |-> "null"], [text |-> "undefined"]} \cup {Stringify(View(u)) : u \in {"u1", AdminId}}

\* The item is there and JSON.parse throws on it.
Unparsable(t) == t # Absent /\ t.text \notin {"json", "null"}

\* JSON.parse of a text it accepts.
Parse(t) == IF t.text = "json" THEN t.of ELSE Null

\* `Bearer ${token}`
Bearer(token) == [text |-> "Bearer", token |-> token]

\* AuthProvider before its mount effect, with what localStorage holds.
Mounted(token, stored) ==
  [user |-> Null, loading |-> TRUE, token |-> token, stored |-> stored,
   header |-> Absent, checked |-> FALSE, pending |-> 0]

\* AuthProvider before its mount effect, with nothing stored.
SignedOut == Mounted(Absent, Absent)

(* AddExpense: loading and error are its React state, requests the create   *)
(* requests of the mounted form that are in flight, orphans those of forms    *)
(* that have been unmounted since.                                            *)

\* AddExpense with no submit under way.
NotSubmitting == [loading |-> FALSE, error |-> "", requests |-> 0, orphans |-> 0]

\* The form is unmounted: its state is dropped, its requests stay in flight.
Unmounted(s) == [NotSubmitting EXCEPT !.orphans = s.orphans + s.requests]

\* The form's state after a render: kept while /add-expense stays on screen.
Kept(s, before, after) ==
  IF before.element = "AddExpense" /\ after.element = "AddExpense" THEN s ELSE Unmounted(s)

(* App: the routes. The screen is the location and the element rendered there. *)

\* <Navigate to=... />
Navigate(to) == [kind |-> "navigate", to |-> to]

\* <div className="loading">
LoadingDiv == [kind |-> "loading", to |-> "none"]

\* A page component.
Element(name) == [kind |-> name, to |-> "none"]

\* A ProtectedRoute that ignores adminOnly.
ProtectedRoute_AnyRole(a, adminOnly, children) ==
  IF a.loading THEN LoadingDiv
  ELSE IF a.user = Null THEN Navigate("/login")
  ELSE children

ProtectedRoute(a, adminOnly, children) ==
  IF a.loading THEN LoadingDiv
  ELSE IF a.user = Null THEN Navigate("/login")
  ELSE IF adminOnly /\ a.user.role # "admin" THEN Navigate("/dashboard")
  ELSE children

\* The locations visited: one per route, the root and one no route matches.
Paths ==
  {"/login", "/register", "/dashboard", "/admin", "/add-expense", "/edit-expense/1", "/", "/nowhere"}

\* <Routes>: the element of the route that matches the location.
RouteElement(path, a) ==
  CASE path = "/login" -> Element("Login")
    [] path = "/register" -> Element("Register")
    [] path = "/dashboard" -> ProtectedRoute(a, FALSE, Element("Dashboard"))
    [] path = "/admin" -> ProtectedRoute(a, TRUE, Element("AdminDashboard"))
    [] path = "/add-expense" -> ProtectedRoute(a, FALSE, Element("AddExpense"))
    [] path = "/edit-expense/1" -> ProtectedRoute(a, FALSE, Element("EditExpense"))
    [] OTHER -> Navigate("/dashboard")

\* The page once every Navigate rendered on the way has been followed.
RECURSIVE Rendered(_, _)
Rendered(path, a) ==
  LET e == RouteElement(path, a)
  IN IF e.kind = "navigate" THEN Rendered(e.to, a) ELSE [path |-> path, element |-> e.kind]

\* The page when the application is opened at its root.
FirstPage == Rendered("/", SignedOut)

\* The location changes: a link, the address bar, history.
Visit(path) ==
  /\ screen' = Rendered(path, auth)
  /\ submit' = Kept(submit, screen, screen')
  /\ UNCHANGED <<backend, forms, auth>>

\* A checkAuth that clears the storage whenever it restores nothing.
CheckAuth_Strict ==
  /\ ~auth.checked
  /\ auth' = IF auth.token # Absent /\ auth.stored # Absent /\ ~Unparsable(auth.stored)
             THEN [auth EXCEPT !.user = Parse(auth.stored), !.header = Bearer(auth.token),
                               !.loading = FALSE, !.checked = TRUE]
             ELSE [auth EXCEPT !.token = Absent, !.stored = Absent,
                               !.loading = FALSE, !.checked = TRUE]
  /\ screen' = Rendered(screen.path, auth')
  /\ submit' = Kept(submit, screen, screen')
  /\ UNCHANGED <<backend, forms>>

\* The mount effect, checkAuth: with both items stored, the user is restored
\* and the header set, or, when the user item does not parse, both items are
\* removed; then loading is set to false.
CheckAuth ==
  /\ ~auth.checked
  /\ auth' = IF auth.token # Absent /\ auth.stored # Absent
             THEN IF Unparsable(auth.stored)
                  THEN [auth EXCEPT !.token = Absent, !.stored = Absent,
                                    !.loading = FALSE, !.checked = TRUE]
                  ELSE [auth EXCEPT !.user = Parse(auth.stored), !.header = Bearer(auth.token),
                                    !.loading = FALSE, !.checked = TRUE]
             ELSE [auth EXCEPT !.loading = FALSE, !.checked = TRUE]
  /\ screen' = Rendered(screen.path, auth')
  /\ submit' = Kept(submit, screen, screen')
  /\ UNCHANGED <<backend, forms>>

\* login, up to its axios.post.
LoginStart ==
  /\ auth.pending < MaxInflight
  /\ auth' = [auth EXCEPT !.pending = @ + 1]
  /\ screen' = Rendered(screen.path, auth')
  /\ submit' = Kept(submit, screen, screen')
  /\ UNCHANGED <<backend, forms>>

\* login, after its axios.post: the response's token and user are stored, the
\* header and the state set; a rejected request changes nothing.
LoginSettle(ok, u) ==
  /\ auth.pending > 0
  /\ auth' = IF ok
             THEN [auth EXCEPT !.pending = @ - 1,
                               !.token = ValidToken(u), !.stored = Stringify(View(u)),
                               !.header = Bearer(ValidToken(u)), !.user = View(u)]
             ELSE [auth EXCEPT !.pending = @ - 1]
  /\ screen' = Rendered(screen.path, auth')
  /\ submit' = Kept(submit, screen, screen')
  /\ UNCHANGED <<backend, forms>>

\* logout
Logout ==
  /\ auth' = [auth EXCEPT !.token = Absent, !.stored = Absent, !.header = Absent, !.user = Null]
  /\ screen' = Rendered(screen.path, auth')
  /\ submit' = Kept(submit, screen, screen')
  /\ UNCHANGED <<backend, forms>>

\* What handleSubmit's request comes to: a response in the 2xx range, an
\* error response with a message, one without, no response, or no request.
SubmitOutcomes == {"created", "message", "status", "silent", "setup"}

\* The text the catch block hands to setError.
ErrorOf(outcome) ==
  CASE outcome = "message" -> "Description is required"
    [] outcome = "status" -> "Server error: 500"
    [] outcome = "silent" -> "Server is not responding. Please check if the backend is running."
    [] OTHER -> "Error adding expense"

\* A submit button that is never disabled.
SubmitDisabled_Never(s) == FALSE

\* <button type="submit" disabled={loading}>
SubmitDisabled(s) == s.loading

\* handleSubmit, up to its axios.post.
HandleSubmitStart ==
  /\ screen.element = "AddExpense"
  /\ ~SubmitDisabled(submit)
  /\ submit.requests + submit.orphans < MaxInflight
  /\ submit' = [submit EXCEPT !.loading = TRUE, !.error = "", !.requests = @ + 1]
  /\ UNCHANGED <<backend, forms, auth, screen>>

\* handleSubmit, after its axios.post: navigate on success, setError on
\* failure, setLoading(false) on both.
HandleSubmitSettle(outcome) ==
  /\ submit.requests > 0
  /\ LET settled == [submit EXCEPT !.loading = FALSE, !.requests = @ - 1,
                                   !.error = IF outcome = "created" THEN @ ELSE ErrorOf(outcome)]
     IN /\ screen' = IF outcome = "created" THEN Rendered("/dashboard", auth) ELSE screen
        /\ submit' = Kept(settled, screen, screen')
  /\ UNCHANGED <<backend, forms, auth>>

\* The rest of a handleSubmit whose form has been unmounted: its setError and
\* setLoading find no component, its navigate still changes the location.
OrphanSettle(outcome) ==
  /\ submit.orphans > 0
  /\ screen' = IF outcome = "created" THEN Rendered("/dashboard", auth) ELSE screen
  /\ submit' = Kept([submit EXCEPT !.orphans = @ - 1], screen, screen')
  /\ UNCHANGED <<backend, forms, auth>>

(* --------------------------- specification ------------------------------ *)

\* The state once the server has started: the seeded admin, one registered
\* user, no expenses, no request in progress.
Init ==
  /\ users = ("adm" :> [name |-> "System Admin", email |-> AdminEmail, role |-> "admin"])
             @@ ("u1" :> [name |-> "Ann", email |-> "a@x.io", role |-> "user"])
  /\ freshUsers = {"u2"}
  /\ expenses = << >>
  /\ nextId = 1
  /\ clock = 0
  /\ data = NoData
  /\ inflight = [s \in 1..MaxInflight |-> Idle]
  /\ resp = [op |-> "none", status |-> 0, user |-> NoUser, tok |-> "none", id |-> 0, uid |-> "none",
             calls |-> 0, ran |-> FALSE, err |-> "none"]
  /\ formData = InitialForm
  /\ shown = NothingShown
  /\ server = Running
  /\ auth = SignedOut
  /\ submit = NotSubmitting
  /\ screen = FirstPage

\* The requests the listening server handles.
Requests ==
  \/ \E tok \in Tokens, body \in ExpenseBodies, fail \in BOOLEAN : UserCreate(tok, body, fail)
  \/ \E tok \in Tokens, pageQ \in SignedQueryValues, limitQ \in SignedQueryValues,
          fail \in BOOLEAN :
       UserList(tok, pageQ, limitQ, fail)
  \/ \E s \in 1..MaxInflight, fail \in BOOLEAN : UserListCount(s, fail)
  \/ \E tok \in Tokens, fail \in BOOLEAN : UserDashboard(tok, fail)
  \/ \E tok \in Tokens, id \in TxIds, fail \in BOOLEAN : UserGetById(tok, id, fail)
  \/ \E tok \in Tokens, id \in TxIds, body \in ExpenseBodies, fail \in BOOLEAN :
       UserUpdateFind(tok, id, body, fail)
  \/ \E s \in 1..MaxInflight, fail \in BOOLEAN : UserUpdateSave(s, fail)
  \/ \E tok \in Tokens, id \in TxIds, fail \in BOOLEAN : UserDelete(tok, id, fail)
  \/ \E tok \in Tokens, fail \in BOOLEAN : AdminListUsers(tok, fail)
  \/ \E tok \in Tokens, uid \in UserIds, body \in UserBodies, fail \in BOOLEAN :
       AdminUpdateUserCheck(tok, uid, body, fail)
  \/ \E s \in 1..MaxInflight, fail \in BOOLEAN : AdminUpdateUserWrite(s, fail)
  \/ \E tok \in Tokens, uid \in UserIds, fail \in BOOLEAN : AdminDeleteUserRecord(tok, uid, fail)
  \/ \E s \in 1..MaxInflight, fail \in BOOLEAN : AdminDeleteUserExpenses(s, fail)
  \/ \E tok \in Tokens, fail \in BOOLEAN : AdminListAllExpenses(tok, fail)
  \/ \E tok \in Tokens, id \in TxIds, body \in ExpenseBodies, fail \in BOOLEAN :
       AdminUpdateExpense(tok, id, body, fail)
  \/ \E tok \in Tokens, id \in TxIds, fail \in BOOLEAN : AdminDeleteExpense(tok, id, fail)
  \/ \E tok \in Tokens, uid \in UserIds, body \in ExpenseBodies : AdminCreateExpense(tok, uid, body)
  \/ \E body \in UserBodies : Register(body)

\* The server's startup and shutdown.
Lifecycle ==
  \/ \E ok \in BOOLEAN : ConnectDB(ok)
  \/ \E fail \in BOOLEAN : CreateAdminFind(fail)
  \/ \E fail \in BOOLEAN : CreateAdminSave(fail)
  \/ Listen
  \/ Shutdown
  \/ Restart

Next ==
  \/ Serving /\ Requests
  \/ Lifecycle
  \/ Tick
  \/ AddExpenseTotal
  \/ AdminDashboardTotal
  \/ \E path \in Paths : Visit(path)
  \/ CheckAuth
  \/ LoginStart
  \/ \E ok \in BOOLEAN, u \in {"u1", AdminId} : LoginSettle(ok, u)
  \/ Logout
  \/ HandleSubmitStart
  \/ \E outcome \in SubmitOutcomes : HandleSubmitSettle(outcome)
  \/ \E outcome \in SubmitOutcomes : OrphanSettle(outcome)

Spec == Init /\ [][Next]_vars

(* ------------------------------ slices ---------------------------------- *)
(* Spec is the whole router with every caller and every body. The slices    *)
(* below are the same actions from the same Init with the callers, bodies   *)
(* and overlap of requests restricted: every behaviour of a slice is a      *)
(* behaviour of Spec.                                                       *)

\* No request is suspended: the next request starts after the last has ended.
Quiet == \A s \in 1..MaxInflight : inflight[s].op = "idle"

Members == {ValidToken("adm"), ValidToken("u1")}

\* The user routes, one request at a time, called by the two account holders.
NextUser ==
  \/ \E tok \in Members, body \in ExpenseBodies, fail \in BOOLEAN :
       Quiet /\ UserCreate(tok, body, fail)
  \/ \E tok \in Members, id \in TxIds, fail \in BOOLEAN : Quiet /\ UserGetById(tok, id, fail)
  \/ \E tok \in Members, id \in TxIds, body \in ExpenseBodies, fail \in BOOLEAN :
       Quiet /\ UserUpdateFind(tok, id, body, fail)
  \/ \E s \in 1..MaxInflight, fail \in BOOLEAN : UserUpdateSave(s, fail)
  \/ \E tok \in Members, id \in TxIds, fail \in BOOLEAN : Quiet /\ UserDelete(tok, id, fail)

SpecUser == Init /\ [][NextUser]_vars

Admin == ValidToken("adm")

\* Two bodies that pass validation.
LunchBody == CHOOSE b \in ExpenseBodies : b.taxType = "percentage"

FlatBody == CHOOSE b \in ExpenseBodies : b.taxType = "flat" /\ b.description = "lunch"

\* The admin expense routes after the user's create, one request at a time.
NextAdminEdit ==
  \/ \E body \in {LunchBody, FlatBody}, fail \in BOOLEAN :
       UserCreate(ValidToken("u1"), body, fail)
  \/ \E tok \in Members, id \in TxIds, body \in ExpenseBodies, fail \in BOOLEAN :
       AdminUpdateExpense(tok, id, body, fail)
  \/ \E tok \in Members, id \in TxIds, fail \in BOOLEAN : AdminDeleteExpense(tok, id, fail)
  \/ \E tok \in Members, fail \in BOOLEAN : AdminListAllExpenses(tok, fail)
  \/ \E tok \in Members, uid \in UserIds, body \in ExpenseBodies : AdminCreateExpense(tok, uid, body)

SpecAdminEdit == Init /\ [][NextAdminEdit]_vars

SalaryBody == CHOOSE b \in ExpenseBodies : b.description = "salary"

BobBody == CHOOSE b \in UserBodies : b.role = "admin"

\* Bodies of POST / with every kind of amount: absent, not a number, negative,
\* zero, the minimum 0.01, and 100.00.
CreateBodies ==
  ExpenseBodies \cup
  {[LunchBody EXCEPT !.amount = a] : a \in {Undef, Str, Num(0 - 500), Num(0), Num(MinAmount)}}

\* Creates by the two account holders, one at a time.
NextCreate ==
  \E tok \in Members, body \in CreateBodies, fail \in BOOLEAN : UserCreate(tok, body, fail)

SpecCreate == Init /\ [][NextCreate]_vars

\* Every route that writes, on a user's Transactions, one request at a time.
NextOwner ==
  \/ Quiet /\ UserCreate(ValidToken("u1"), LunchBody, FALSE)
  \/ \E id \in TxIds : Quiet /\ UserUpdateFind(ValidToken("u1"), id, FlatBody, FALSE)
  \/ \E s \in 1..MaxInflight, fail \in BOOLEAN : UserUpdateSave(s, fail)
  \/ \E id \in TxIds : Quiet /\ UserDelete(ValidToken("u1"), id, FALSE)
  \/ \E id \in TxIds, body \in {LunchBody, SalaryBody} :
       Quiet /\ AdminUpdateExpense(Admin, id, body, FALSE)
  \/ \E id \in TxIds : Quiet /\ AdminDeleteExpense(Admin, id, FALSE)
  \/ Quiet /\ AdminUpdateUserCheck(Admin, "u1", BobBody, FALSE)
  \/ \E s \in 1..MaxInflight : AdminUpdateUserWrite(s, FALSE)
  \/ Quiet /\ AdminDeleteUserRecord(Admin, "u1", FALSE)
  \/ \E s \in 1..MaxInflight : AdminDeleteUserExpenses(s, FALSE)

SpecOwner == Init /\ [][NextOwner]_vars

\* One owner's requests on the user routes, overlapping freely.
NextRace ==
  \/ \E fail \in BOOLEAN : UserCreate(ValidToken("u1"), LunchBody, fail)
  \/ \E id \in TxIds, body \in {FlatBody, SalaryBody}, fail \in BOOLEAN :
       UserUpdateFind(ValidToken("u1"), id, body, fail)
  \/ \E s \in 1..MaxInflight, fail \in BOOLEAN : UserUpdateSave(s, fail)
  \/ \E id \in TxIds, fail \in BOOLEAN : UserDelete(ValidToken("u1"), id, fail)

SpecRace == Init /\ [][NextRace]_vars

\* Deleting users while their owners keep creating: requests overlap freely.
NextCascade ==
  \/ \E tok \in Members, fail \in BOOLEAN : UserCreate(tok, LunchBody, fail)
  \/ \E tok \in Members, uid \in UserIds, fail \in BOOLEAN : AdminDeleteUserRecord(tok, uid, fail)
  \/ \E s \in 1..MaxInflight, fail \in BOOLEAN : AdminDeleteUserExpenses(s, fail)

SpecCascade == Init /\ [][NextCascade]_vars

\* Admin edits of users and registrations, overlapping freely.
NextEmail ==
  \/ \E uid \in UserIds, body \in UserBodies, fail \in BOOLEAN :
       AdminUpdateUserCheck(Admin, uid, body, fail)
  \/ \E s \in 1..MaxInflight, fail \in BOOLEAN : AdminUpdateUserWrite(s, fail)
  \/ \E body \in UserBodies : Register(body)

SpecEmail == Init /\ [][NextEmail]_vars

\* Admin edits of users and registrations, one request at a time.
NextUserEdit ==
  \/ \E uid \in UserIds, body \in UserBodies, fail \in BOOLEAN :
       Quiet /\ AdminUpdateUserCheck(Admin, uid, body, fail)
  \/ \E s \in 1..MaxInflight, fail \in BOOLEAN : AdminUpdateUserWrite(s, fail)
  \/ \E body \in UserBodies : Quiet /\ Register(body)

SpecUserEdit == Init /\ [][NextUserEdit]_vars

\* The routes that read Transactions, called by a user and by the admin
\* after creates by both, one request at a time.
NextList ==
  \/ \E body \in {LunchBody, SalaryBody} : Quiet /\ UserCreate(ValidToken("u1"), body, FALSE)
  \/ Quiet /\ UserCreate(Admin, LunchBody, FALSE)
  \/ Tick
  \/ \E pageQ \in QueryValues, limitQ \in QueryValues, fail \in BOOLEAN :
       Quiet /\ UserList(ValidToken("u1"), pageQ, limitQ, fail)
  \/ \E s \in 1..MaxInflight, fail \in BOOLEAN : UserListCount(s, fail)
  \/ \E fail \in BOOLEAN : Quiet /\ UserDashboard(ValidToken("u1"), fail)
  \/ \E fail \in BOOLEAN : Quiet /\ AdminListAllExpenses(Admin, fail)

SpecList == Init /\ [][NextList]_vars


\* Every route, called by a plain user and by holders of bad tokens, one
\* request at a time. (No admin handler gets past its gate for these callers,
\* so the second halves of the admin handlers have no step here.)
Outsiders == {ValidToken("u1")} \cup BadTokens

NextGate ==
  \/ \E tok \in Outsiders, fail \in BOOLEAN : Quiet /\ UserCreate(tok, LunchBody, fail)
  \/ \E tok \in Outsiders, fail \in BOOLEAN : Quiet /\ UserList(tok, Undef, Undef, fail)
  \/ \E s \in 1..MaxInflight, fail \in BOOLEAN : UserListCount(s, fail)
  \/ \E tok \in Outsiders, fail \in BOOLEAN : Quiet /\ UserDashboard(tok, fail)
  \/ \E tok \in Outsiders, id \in TxIds, fail \in BOOLEAN : Quiet /\ UserGetById(tok, id, fail)
  \/ \E tok \in Outsiders, id \in TxIds, fail \in BOOLEAN :
       Quiet /\ UserUpdateFind(tok, id, FlatBody, fail)
  \/ \E s \in 1..MaxInflight, fail \in BOOLEAN : UserUpdateSave(s, fail)
  \/ \E tok \in Outsiders, id \in TxIds, fail \in BOOLEAN : Quiet /\ UserDelete(tok, id, fail)
  \/ \E tok \in Outsiders, fail \in BOOLEAN : Quiet /\ AdminListUsers(tok, fail)
  \/ \E tok \in Outsiders, uid \in UserIds, fail \in BOOLEAN :
       Quiet /\ AdminUpdateUserCheck(tok, uid, BobBody, fail)
  \/ \E tok \in Outsiders, uid \in UserIds, fail \in BOOLEAN :
       Quiet /\ AdminDeleteUserRecord(tok, uid, fail)
  \/ \E tok \in Outsiders, fail \in BOOLEAN : Quiet /\ AdminListAllExpenses(tok, fail)
  \/ \E tok \in Outsiders, id \in TxIds, body \in ExpenseBodies, fail \in BOOLEAN :
       Quiet /\ AdminUpdateExpense(tok, id, body, fail)
  \/ \E tok \in Outsiders, id \in TxIds, fail \in BOOLEAN : Quiet /\ AdminDeleteExpense(tok, id, fail)

SpecGate == Init /\ [][NextGate]_vars

\* The admin's deletes of Transactions and of users, present and absent,
\* after creates by a user and by the admin, one request at a time.
NextAdminDelete ==
  \/ \E tok \in Members : Quiet /\ UserCreate(tok, LunchBody, FALSE)
  \/ \E tok \in Members, id \in TxIds, fail \in BOOLEAN :
       Quiet /\ AdminDeleteExpense(tok, id, fail)
  \/ \E uid \in UserIds, fail \in BOOLEAN : Quiet /\ AdminDeleteUserRecord(Admin, uid, fail)
  \/ \E s \in 1..MaxInflight, fail \in BOOLEAN : AdminDeleteUserExpenses(s, fail)

SpecAdminDelete == Init /\ [][NextAdminDelete]_vars

\* A user's updates of their own Transactions with every kind of body, fields
\* omitted or not, one request at a time.
NextUpdate ==
  \/ \E body \in {LunchBody, SalaryBody} : Quiet /\ UserCreate(ValidToken("u1"), body, FALSE)
  \/ \E id \in TxIds, body \in CreateBodies, fail \in BOOLEAN :
       Quiet /\ UserUpdateFind(ValidToken("u1"), id, body, fail)
  \/ \E s \in 1..MaxInflight, fail \in BOOLEAN : UserUpdateSave(s, fail)

SpecUpdate == Init /\ [][NextUpdate]_vars

\* A user's updates overlapping with the deletes of the same Transactions: by
\* the owner, by the admin, and by the cascade of the owner's deletion.
NextResurrect ==
  \/ UserCreate(ValidToken("u1"), LunchBody, FALSE)
  \/ \E id \in TxIds : UserUpdateFind(ValidToken("u1"), id, FlatBody, FALSE)
  \/ \E s \in 1..MaxInflight : UserUpdateSave(s, FALSE)
  \/ \E id \in TxIds : UserDelete(ValidToken("u1"), id, FALSE)
  \/ \E id \in TxIds : AdminDeleteExpense(Admin, id, FALSE)
  \/ AdminDeleteUserRecord(Admin, "u1", FALSE)
  \/ \E s \in 1..MaxInflight : AdminDeleteUserExpenses(s, FALSE)

SpecResurrect == Init /\ [][NextResurrect]_vars

\* The six user routes, called by a user and by the admin as a user, one
\* request at a time.
NextFrame ==
  \/ \E tok \in Members : Quiet /\ UserCreate(tok, LunchBody, FALSE)
  \/ \E tok \in Members, id \in TxIds : Quiet /\ UserUpdateFind(tok, id, SalaryBody, FALSE)
  \/ \E s \in 1..MaxInflight, fail \in BOOLEAN : UserUpdateSave(s, fail)
  \/ \E tok \in Members, id \in TxIds : Quiet /\ UserDelete(tok, id, FALSE)
  \/ \E tok \in Members : Quiet /\ UserList(tok, Undef, Undef, FALSE)
  \/ \E s \in 1..MaxInflight, fail \in BOOLEAN : UserListCount(s, fail)
  \/ \E tok \in Members, id \in TxIds : Quiet /\ UserGetById(tok, id, FALSE)
  \/ \E tok \in Members : Quiet /\ UserDashboard(tok, FALSE)

SpecFrame == Init /\ [][NextFrame]_vars

\* List requests of a user with every kind of page and limit, one at a time.
NextQuery ==
  \/ Quiet /\ UserCreate(ValidToken("u1"), LunchBody, FALSE)
  \/ \E pageQ \in SignedQueryValues, limitQ \in SignedQueryValues, fail \in BOOLEAN :
       Quiet /\ UserList(ValidToken("u1"), pageQ, limitQ, fail)
  \/ \E s \in 1..MaxInflight, fail \in BOOLEAN : UserListCount(s, fail)

SpecQuery == Init /\ [][NextQuery]_vars

\* AuthProvider from every content of localStorage.
InitAuth ==
  /\ users = ("adm" :> [name |-> "System Admin", email |-> AdminEmail, role |-> "admin"])
             @@ ("u1" :> [name |-> "Ann", email |-> "a@x.io", role |-> "user"])
  /\ freshUsers = {"u2"}
  /\ expenses = << >>
  /\ nextId = 1
  /\ clock = 0
  /\ data = NoData
  /\ inflight = [s \in 1..MaxInflight |-> Idle]
  /\ resp = [op |-> "none", status |-> 0, user |-> NoUser, tok |-> "none", id |-> 0, uid |-> "none",
             calls |-> 0, ran |-> FALSE, err |-> "none"]
  /\ formData = InitialForm
  /\ shown = NothingShown
  /\ server = Running
  /\ \E token \in {Absent} \cup {t \in Tokens : t.kind # "missing"}, stored \in StoredUsers :
       auth = Mounted(token, stored)
  /\ submit = NotSubmitting
  /\ \E path \in Paths : screen = Rendered(path, auth)

NextAuth ==
  \/ \E path \in Paths : Visit(path)
  \/ CheckAuth
  \/ LoginStart
  \/ \E ok \in BOOLEAN, u \in {"u1", AdminId} : LoginSettle(ok, u)
  \/ Logout

SpecAuth == InitAuth /\ [][NextAuth]_vars

\* The application in the browser: AuthProvider, the routes and AddExpense.
NextSubmit ==
  \/ NextAuth
  \/ HandleSubmitStart
  \/ \E outcome \in SubmitOutcomes : HandleSubmitSettle(outcome)
  \/ \E outcome \in SubmitOutcomes : OrphanSettle(outcome)

SpecSubmit == InitAuth /\ [][NextSubmit]_vars

\* The first start of the server on an empty store.
InitBoot ==
  /\ users = << >>
  /\ freshUsers = UserIds
  /\ expenses = << >>
  /\ nextId = 1
  /\ clock = 0
  /\ data = NoData
  /\ inflight = [s \in 1..MaxInflight |-> Idle]
  /\ resp = [op |-> "none", status |-> 0, user |-> NoUser, tok |-> "none", id |-> 0, uid |-> "none",
             calls |-> 0, ran |-> FALSE, err |-> "none"]
  /\ formData = InitialForm
  /\ shown = NothingShown
  /\ server = Started(1)
  /\ auth = SignedOut
  /\ submit = NotSubmitting
  /\ screen = FirstPage

\* A registration that asks for the admin's email.
AdminEmailBody == [name |-> "Eve", email |-> AdminEmail, role |-> "user"]

\* Startups and shutdowns, with registrations and the admin's edits and
\* deletes of users while the server listens, one request at a time.
NextBoot ==
  \/ Lifecycle
  \/ \E body \in UserBodies \cup {AdminEmailBody} : Serving /\ Quiet /\ Register(body)
  \/ \E uid \in UserIds, fail \in BOOLEAN :
       Serving /\ Quiet /\ AdminUpdateUserCheck(Admin, uid, BobBody, fail)
  \/ \E s \in 1..MaxInflight, fail \in BOOLEAN : Serving /\ AdminUpdateUserWrite(s, fail)
  \/ \E uid \in UserIds, fail \in BOOLEAN :
       Serving /\ Quiet /\ AdminDeleteUserRecord(Admin, uid, fail)
  \/ \E s \in 1..MaxInflight, fail \in BOOLEAN : Serving /\ AdminDeleteUserExpenses(s, fail)

SpecBoot == InitBoot /\ [][NextBoot]_vars

\* The calculators alone, on every form that can be typed.
InitCalc ==
  /\ users = << >>
  /\ freshUsers = {}
  /\ expenses = << >>
  /\ nextId = 1
  /\ clock = 0
  /\ data = NoData
  /\ inflight = [s \in 1..MaxInflight |-> Idle]
  /\ resp = [op |-> "none", status |-> 0, user |-> NoUser, tok |-> "none", id |-> 0, uid |-> "none",
             calls |-> 0, ran |-> FALSE, err |-> "none"]
  /\ formData \in Forms
  /\ shown = NothingShown
  /\ server = Running
  /\ auth = SignedOut
  /\ submit = NotSubmitting
  /\ screen = FirstPage

NextCalc ==
  \/ AddExpenseTotal
  \/ AdminDashboardTotal

SpecCalc == InitCalc /\ [][NextCalc]_vars

(* ------------------------------ claims ---------------------------------- *)

\* C1. Ownership isolation: a getById, update or delete by a user on a stored
\* Transaction of another user leaves the store as it was and never succeeds;
\* unless the store itself failed, the answer is 404.
OwnershipIsolation ==
  [][ ( /\ resp'.op \in {"getById", "update", "delete"}
        /\ resp'.ran
        /\ resp'.id \in DOMAIN expenses
        /\ expenses[resp'.id].userId # resp'.user.id )
      => ( /\ expenses' = expenses
           /\ inflight' = inflight
           /\ resp'.status \notin {0, 200}
           /\ resp'.err # "StoreUnavailable" => resp'.status = 404 /\ resp'.err = "NotFound" ) ]_vars

\* C1 witness: another user's delete of a stored Transaction was answered 404.
OwnershipIsolationWitness ==
  /\ resp.op = "delete"
  /\ resp.status = 404
  /\ resp.id \in DOMAIN expenses
  /\ expenses[resp.id].userId # resp.user.id

\* C2. In every state reached by the owners' creates and updates, every
\* stored Transaction's totalAmount is computeTotal(amount, taxType,
\* taxAmount), whatever totalAmount the request bodies carried.
TotalConsistent ==
  \A id \in DOMAIN expenses :
    expenses[id].totalAmount =
      computeTotal(expenses[id].amount, expenses[id].taxType, expenses[id].taxAmount)

\* C3. Cascade delete: when deleteUser answers 200 the User is gone and no
\* Transaction of that user is stored; neither of its two store calls touches
\* a Transaction of another user.
CascadeDelete ==
  [][ resp'.op = "deleteUser" =>
        /\ \A id \in DOMAIN expenses :
             expenses[id].userId # resp'.uid =>
               id \in DOMAIN expenses' /\ expenses'[id] = expenses[id]
        /\ resp'.status = 200 =>
             /\ resp'.uid \notin DOMAIN users'
             /\ \A id \in DOMAIN expenses' : expenses'[id].userId # resp'.uid ]_vars

\* C3 witness: a deleteUser answered 200 after removing a Transaction, and a
\* Transaction of another user is still stored.
CascadeDeleteWitness ==
  /\ resp.op = "deleteUser"
  /\ resp.status = 200
  /\ resp.uid \notin DOMAIN users
  /\ \E id \in 1..(nextId - 1) : id \notin DOMAIN expenses
  /\ \E id \in DOMAIN expenses : expenses[id].userId # resp.uid

\* C4. No orphans: in every state the owner of every stored Transaction is a
\* stored User.
NoOrphanedTransaction ==
  \A id \in DOMAIN expenses : expenses[id].userId \in DOMAIN users

\* A text that is a decimal numeral: digits with at most one point and at
\* least one digit.
IsNumeral(text) ==
  /\ \A i \in DOMAIN text : IsDigit(text[i]) \/ text[i] = "."
  /\ Cardinality({i \in DOMAIN text : text[i] = "."}) <= 1
  /\ \E i \in DOMAIN text : IsDigit(text[i])

\* A text that does not begin with a number.
NonNumeric(text) ==
  \/ text = << >>
  \/ ~IsDigit(text[1]) /\ ~(text[1] = "." /\ Len(text) > 1 /\ IsDigit(text[2]))

\* The number a numeral writes: its digits read without the point, divided
\* by ten for each digit after the point.
NumeralValue(text) ==
  LET digits == SelectSeq(text, IsDigit)
      pt     == IF \E i \in DOMAIN text : text[i] = "."
                THEN CHOOSE i \in DOMAIN text : text[i] = "."
                ELSE Len(text)
  IN Normal([nan |-> FALSE, m |-> DigitsValue(digits, 1, Len(digits)), d |-> Len(text) - pt])

\* The number the claim gives a field: its value, 0 when non-numeric.
FieldValue(text) == IF NonNumeric(text) THEN Zero ELSE NumeralValue(text)

\* C5. Total Calculator: on a form whose amount and tax are numerals or
\* non-numeric (counted as 0), each calculator that has run returned
\* amount + amount * tax / 100 for 'percentage' and amount + tax for any other
\* taxType, and the two calculators returned the same total on every form.
TotalCalculator ==
  LET a == FieldValue(formData.amount)
      t == FieldValue(formData.taxAmount)
      expected == IF formData.taxType = "percentage"
                  THEN Plus(a, Normal([nan |-> FALSE, m |-> a.m * t.m, d |-> a.d + t.d + 2]))
                  ELSE Plus(a, t)
      stated == /\ IsNumeral(formData.amount) \/ NonNumeric(formData.amount)
                /\ IsNumeral(formData.taxAmount) \/ NonNumeric(formData.taxAmount)
  IN /\ \A page \in DOMAIN shown : (stated /\ ~shown[page].nan) => shown[page] = expected
     /\ (~shown.AddExpense.nan /\ ~shown.AdminDashboard.nan)
          => shown.AddExpense = shown.AdminDashboard

\* C5 witness: both calculators have totalled 5.5 plus 5 percent, and
\* returned 5.775.
TotalCalculatorWitness ==
  /\ formData = [amount |-> <<"5", ".", "5">>, taxType |-> "percentage", taxAmount |-> <<"5">>]
  /\ shown.AddExpense = [nan |-> FALSE, m |-> 5775, d |-> 3]
  /\ shown.AdminDashboard = shown.AddExpense

\* C6. Admin gate: an admin operation called with a role other than admin is
\* answered 403 before any store call and changes nothing.
AdminOps ==
  {"listUsers", "updateUser", "deleteUser", "listAllExpenses", "updateExpense", "deleteExpense"}

AdminGate ==
  [][ (resp'.op \in AdminOps /\ resp'.ran /\ resp'.user.role # "admin")
      => ( /\ resp'.status = 403
           /\ resp'.calls = 0
           /\ UNCHANGED <<users, freshUsers, expenses, nextId, inflight>> ) ]_vars

\* C6 witness: a plain user's deleteExpense of a stored Transaction was
\* answered 403.
AdminGateWitness ==
  /\ resp.op = "deleteExpense"
  /\ resp.status = 403
  /\ resp.user = [id |-> "u1", role |-> "user"]
  /\ resp.id \in DOMAIN expenses

\* The handlers the router mounts.
RouteOps == {RouteTable[r].handler : r \in DOMAIN RouteTable}

\* C7. Authentication first: a request to any route whose token is missing,
\* malformed, expired or tampered is answered 401 without its handler being
\* entered, without a store call and without any change to either store.
AuthenticateFirst ==
  [][ (resp'.op \in RouteOps /\ resp'.tok \in {t.kind : t \in BadTokens})
      => ( /\ resp'.status = 401
           /\ ~resp'.ran
           /\ resp'.calls = 0
           /\ UNCHANGED <<users, freshUsers, expenses, nextId, inflight>> ) ]_vars

\* C7 witness: a request was answered 401 while a Transaction is stored.
AuthenticateFirstWitness ==
  /\ resp.op = "delete"
  /\ resp.tok = "tampered"
  /\ resp.status = 401
  /\ resp.err = "Unauthenticated"
  /\ ~resp.ran
  /\ expenses # << >>

\* C8. An admin updateExpense whose body carries no totalAmount stores the
\* total computed from the Transaction's new amount, taxType and taxAmount.
AdminRecomputes ==
  [][ \A tok \in Members, id \in TxIds, body \in ExpenseBodies :
        ( /\ AdminUpdateExpense(tok, id, body, FALSE)
          /\ resp'.status = 200
          /\ body.totalAmount = Undef )
        => expenses'[id].totalAmount =
             computeTotal(expenses'[id].amount, expenses'[id].taxType, expenses'[id].taxAmount) ]_vars

\* C9. createExpenseFor is available: the dashboard's POST /admin/create by
\* the admin with a valid body is answered 201 and stores a Transaction owned
\* by the supplied userId, totalled as user create totals it.
AdminCreateAvailable ==
  [][ \A uid \in DOMAIN users, body \in ExpenseBodies :
        ( /\ AdminCreateExpense(Admin, uid, body)
          /\ ValidExpense(NewExpense(body, uid))
          /\ nextId <= MaxTx )
        => /\ resp'.status = 201
           /\ \E id \in DOMAIN expenses' \ DOMAIN expenses :
                expenses'[id] = PreSave(NewExpense(body, uid)) ]_vars

HeldByOther(email, uid) == \E v \in DOMAIN users \ {uid} : users[v].email = email

\* C11 as stated. An updateUser of a userId that does not exist is never
\* answered with anything but NotFound (404).
UpdateUserAbsentIsNotFound ==
  [][ \A uid \in UserIds, body \in UserBodies :
        (AdminUpdateUserCheck(Admin, uid, body, FALSE) /\ uid \notin DOMAIN users)
        => resp'.status \in {0, 404} ]_vars

\* C11. Admin updateUser without a store failure: when another user holds the
\* target email it is answered DuplicateEmail (400) and changes nothing; when
\* the target email is the user's own it passes the email check and its write
\* is answered 200 with the body stored; when the userId does not exist and no
\* user holds the target email it is answered NotFound (404) and changes
\* nothing.
UpdateUserErrors ==
  [][ /\ \A uid \in UserIds, body \in UserBodies :
           AdminUpdateUserCheck(Admin, uid, body, FALSE) =>
             /\ HeldByOther(body.email, uid) =>
                  /\ resp'.status = 400
                  /\ resp'.err = "DuplicateEmail"
                  /\ UNCHANGED <<users, expenses, inflight>>
             /\ (uid \in DOMAIN users /\ users[uid].email = body.email) =>
                  resp'.status = 0 /\ UNCHANGED users
             /\ (uid \notin DOMAIN users /\ ~HeldByOther(body.email, uid)) =>
                  resp'.status = 0 /\ UNCHANGED users
      /\ \A s \in 1..MaxInflight :
           AdminUpdateUserWrite(s, FALSE) =>
             /\ inflight[s].uid \notin DOMAIN users =>
                  /\ resp'.status = 404
                  /\ resp'.err = "NotFound"
                  /\ UNCHANGED <<users, expenses>>
             /\ (inflight[s].uid \in DOMAIN users
                 /\ users[inflight[s].uid].email = inflight[s].body.email) =>
                  /\ resp'.status = 200
                  /\ users' = [users EXCEPT ![inflight[s].uid] = inflight[s].body] ]_vars

\* C11 witness: an updateUser of u1 whose body kept u1's own email went
\* through both store calls and was answered 200.
UpdateUserErrorsWitness ==
  /\ resp.op = "updateUser"
  /\ resp.status = 200
  /\ resp.calls = 2
  /\ resp.uid = "u1"
  /\ users["u1"].email = "a@x.io"

(* ------------------------------- C12 ----------------------------------- *)

\* The step in which the list request held in slot s is answered with 200.
ListAnswered(s) ==
  inflight[s].op = "list" /\ inflight'[s].op = "idle" /\ resp'.status = 200

\* A query parameter that is a positive integer.
Positive(x) == x.k = "num" /\ x.v >= 1

\* The Transactions of uid, by the store as it is when the list is answered.
TransactionsOf(uid) == {i \in DOMAIN expenses : expenses[i].userId = uid}

Min(a, b) == IF a < b THEN a ELSE b

Max(a, b) == IF a > b THEN a ELSE b

\* The item is one that can stand at position pos of a newest-first sequence
\* of the Transactions ids: fewer than pos of them are newer than it, and at
\* least pos of them are as new as it.
AtPosition(item, pos, ids) ==
  /\ item.id \in ids
  /\ item.doc = expenses[item.id]
  /\ Cardinality({i \in ids : expenses[i].createdAt > item.doc.createdAt}) < pos
  /\ Cardinality({i \in ids : expenses[i].createdAt >= item.doc.createdAt}) >= pos

\* C12. A list request with page >= 1 and limit >= 1 by a user with T
\* Transactions is answered with exactly min(limit, max(0, T - (page-1)*limit))
\* items, which are distinct and stand at positions (page-1)*limit+1 ..
\* page*limit of the user's newest-first sequence, with currentPage = page,
\* totalPages = ceil(T/limit) (the least t with t*limit >= T) and the total
\* count T.
Pagination ==
  [][ \A s \in 1..MaxInflight :
        (ListAnswered(s) /\ Positive(inflight[s].query.page)
                         /\ Positive(inflight[s].query.limit)) =>
          LET page == inflight[s].query.page.v
              limit == inflight[s].query.limit.v
              mine == TransactionsOf(resp'.user.id)
              T == Cardinality(mine)
              first == (page - 1) * limit
              n == Min(limit, Max(0, T - first))
              items == data'.expenses
          IN /\ Len(items) = n
             /\ \A k \in 1..n : AtPosition(items[k], first + k, mine)
             /\ \A j, k \in 1..n : j # k => items[j].id # items[k].id
             /\ data'.currentPage = page
             /\ data'.totalPages * limit >= T
             /\ data'.totalPages = 0 \/ (data'.totalPages - 1) * limit < T
             /\ data'.totalExpenses = T ]_vars

\* The second page of one item each, of a user with two Transactions.
PaginationWitness ==
  /\ resp.op = "list" /\ resp.status = 200
  /\ data.currentPage = 2 /\ data.totalPages = 2 /\ data.totalExpenses = 2
  /\ Len(data.expenses) = 1
  /\ Cardinality(TransactionsOf("u1")) = 2

(* ------------------------------- C13 ----------------------------------- *)

\* The items are in createdAt order, newest first.
Descending(items) ==
  \A i, j \in DOMAIN items : i < j => items[i].doc.createdAt >= items[j].doc.createdAt

\* C13. The items of an answered user list and of an answered admin
\* listAllExpenses are ordered by createdAt descending: of two returned items,
\* the earlier one has createdAt >= the later one's. The user list holds only
\* Transactions owned by the requester; the admin list holds every stored
\* Transaction, of every user, once.
ListOrder ==
  /\ (resp.op = "list" /\ resp.status = 200) =>
       /\ Descending(data.expenses)
       /\ \A k \in DOMAIN data.expenses :
            /\ data.expenses[k].id \in DOMAIN expenses
            /\ expenses[data.expenses[k].id].userId = resp.user.id
  /\ (resp.op = "listAllExpenses" /\ resp.status = 200) =>
       /\ Descending(data.expenses)
       /\ {data.expenses[k].id : k \in DOMAIN data.expenses} = DOMAIN expenses
       /\ Len(data.expenses) = Cardinality(DOMAIN expenses)

\* The admin list of two Transactions of two owners, the newer one first.
ListOrderWitness ==
  /\ resp.op = "listAllExpenses" /\ resp.status = 200
  /\ Len(data.expenses) = 2
  /\ data.expenses[1].doc.userId # data.expenses[2].doc.userId
  /\ data.expenses[1].doc.createdAt > data.expenses[2].doc.createdAt
  /\ data.expenses[1].id > data.expenses[2].id

(* ------------------------------- C14 ----------------------------------- *)

\* The sum of totalAmount over the stored Transactions of uid of a type.
RECURSIVE SumOfAmounts(_)
SumOfAmounts(ids) ==
  IF ids = {} THEN 0
  ELSE LET i == CHOOSE x \in ids : \A y \in ids : x <= y
       IN expenses[i].totalAmount + SumOfAmounts(ids \ {i})

TypedTotal(uid, type) ==
  SumOfAmounts({i \in TransactionsOf(uid) : expenses[i].type = type})

\* C14. An answered dashboardSummary gives totalIncome = the sum of totalAmount
\* over all of the requester's 'income' Transactions, totalExpense = the sum
\* over all of the requester's 'expense' Transactions, balance = totalIncome -
\* totalExpense and totalRecords = the number of the requester's Transactions;
\* no other user's Transaction counts.
DashboardSummary ==
  (resp.op = "dashboard" /\ resp.status = 200) =>
    /\ data.totalIncome = TypedTotal(resp.user.id, "income")
    /\ data.totalExpense = TypedTotal(resp.user.id, "expense")
    /\ data.balance = data.totalIncome - data.totalExpense
    /\ data.totalRecords = Cardinality(TransactionsOf(resp.user.id))

\* The summary of a user with one income of 40.00, while another user has an
\* expense.
DashboardSummaryWitness ==
  /\ resp.op = "dashboard" /\ resp.status = 200 /\ resp.user.id = "u1"
  /\ data.totalIncome = Scaled(4000) /\ data.totalExpense = 0
  /\ data.balance = Scaled(4000) /\ data.totalRecords = 1
  /\ \E i \in DOMAIN expenses : expenses[i].userId = "adm" /\ expenses[i].type = "expense"

(* ------------------------------- C15 ----------------------------------- *)

\* The stored Transaction has these tax fields, in hundredths.
TaxFields(doc, amount, taxType, taxAmount) ==
  doc.amount = amount /\ doc.taxType = taxType /\ doc.taxAmount = taxAmount

\* The body asks for these tax fields, in hundredths.
AsksFor(body, amount, taxType, taxAmount) ==
  body.amount = Num(amount) /\ body.taxType = taxType /\ body.taxAmount = Num(taxAmount)

\* C15. A create with amount 100, taxType 'percentage', taxAmount 10 stores
\* totalAmount 110; a user update of a Transaction stored with those values
\* to taxType 'flat', taxAmount 5, amount still 100, stores totalAmount 105.
RoundTrip ==
  [][ /\ (resp'.op = "create" /\ nextId' = nextId + 1
          /\ TaxFields(expenses'[nextId], 10000, "percentage", 1000)) =>
            expenses'[nextId].totalAmount = Scaled(11000)
      /\ \A s \in 1..MaxInflight :
           (/\ inflight[s].op = "update" /\ inflight'[s].op = "idle" /\ resp'.status = 200
            /\ AsksFor(inflight[s].body, 10000, "flat", 500)
            /\ inflight[s].id \in DOMAIN expenses
            /\ TaxFields(expenses[inflight[s].id], 10000, "percentage", 1000)
            /\ expenses[inflight[s].id].totalAmount = Scaled(11000)) =>
             /\ TaxFields(expenses'[inflight[s].id], 10000, "flat", 500)
             /\ expenses'[inflight[s].id].totalAmount = Scaled(10500) ]_vars

\* An update has written flat 5 on 100, total 105, over other values.
RoundTripWitness ==
  /\ resp.op = "update" /\ resp.status = 200 /\ resp.calls = 2
  /\ resp.id \in DOMAIN expenses
  /\ TaxFields(expenses[resp.id], 10000, "flat", 500)
  /\ expenses[resp.id].totalAmount = Scaled(10500)

(* ------------------------------- C16 ----------------------------------- *)

\* C16. No operation changes the userId of an existing Transaction: a
\* Transaction that is stored before and after a step has the same userId,
\* whatever the request body holds. (Ids are never given twice.)
OwnerImmutable ==
  [][ \A id \in DOMAIN expenses \cap DOMAIN expenses' :
        expenses'[id].userId = expenses[id].userId ]_vars

\* The admin has edited a user's Transaction with a body that names the
\* admin as userId.
OwnerImmutableWitness ==
  /\ resp.op = "updateExpense" /\ resp.status = 200
  /\ resp.id \in DOMAIN expenses
  /\ expenses[resp.id].userId = "u1"
  /\ expenses[resp.id].taxType = "percentage"
  /\ LunchBody.userId = "adm"

(* ------------------------------- C17 ----------------------------------- *)

\* The stored Transaction holds the complete field set of the body: its five
\* fields and the totalAmount that matches them.
HoldsFieldsOf(doc, body) ==
  /\ doc.description = body.description
  /\ doc.amount = NumberOr0(body.amount)
  /\ doc.type = body.type
  /\ doc.taxType = body.taxType
  /\ doc.taxAmount = NumberOr0(body.taxAmount)
  /\ doc.totalAmount = computeTotal(doc.amount, doc.taxType, doc.taxAmount)

\* C17. Updates of one Transaction that interleave are last-write-wins: when
\* an update request's save has written, the stored Transaction holds the
\* complete field set of that request, never a mixture with the fields of
\* another request.
LastWriteWins ==
  [][ \A s \in 1..MaxInflight :
        (/\ inflight[s].op = "update" /\ inflight'[s].op = "idle"
         /\ resp'.status = 200 /\ resp'.calls = 2) =>
          HoldsFieldsOf(expenses'[inflight[s].id], inflight[s].body) ]_vars

(* ------------------------------- C18 ----------------------------------- *)

\* C18. Every failure is answered with the status of its kind, on every
\* route: ValidationError 400, DuplicateEmail 400, NotFound 404, Forbidden
\* 403, and a store failure (StoreUnavailable) 500; a request answered without
\* a failure has a success status.
FailureStatus ==
  /\ resp.err = "ValidationError" => resp.status = 400
  /\ resp.err = "DuplicateEmail" => resp.status = 400
  /\ resp.err = "NotFound" => resp.status = 404
  /\ resp.err = "Forbidden" => resp.status = 403
  /\ resp.err = "StoreUnavailable" => resp.status = 500
  /\ (resp.op # "none" /\ resp.err = "none") => resp.status \in {0, 200, 201}

(* ------------------------------- C19 ----------------------------------- *)

\* The input the create must reject: description empty or missing, or amount
\* missing, not a number, or below 0.01.
BadInput(body) ==
  \/ body.description = "" \/ body.description = Missing
  \/ body.amount.k # "num"
  \/ body.amount.v < 1

\* Exactly one Transaction, owned by uid, is added and the others are kept.
OneAdded(uid) ==
  \E id \in DOMAIN expenses' \ DOMAIN expenses :
    /\ DOMAIN expenses' = DOMAIN expenses \cup {id}
    /\ expenses'[id].userId = uid
    /\ \A j \in DOMAIN expenses : expenses'[j] = expenses[j]

\* C19. A create whose description is empty or missing, or whose amount is
\* missing, non-numeric or below 0.01, is answered ValidationError (400) and
\* leaves the Transaction Store unchanged; any other create (the store being
\* reachable) adds exactly one new Transaction owned by the caller.
CreateValidates ==
  [][ \A tok \in Members, body \in CreateBodies :
        UserCreate(tok, body, FALSE) =>
          IF BadInput(body)
          THEN resp'.status = 400 /\ resp'.err = "ValidationError" /\ UNCHANGED expenses
          ELSE resp'.status = 201 /\ OneAdded(tok.id) ]_vars

\* A create was rejected while a Transaction was stored, and the store holds
\* no Transaction with an amount below 0.01.
CreateValidatesWitness ==
  /\ resp.op = "create" /\ resp.status = 400 /\ resp.err = "ValidationError"
  /\ DOMAIN expenses = {1}
  /\ expenses[1].amount = MinAmount

(* ------------------------------- C20 ----------------------------------- *)

\* What the caller sees of a response: its status and its error.
Visible(r) == [status |-> r.status, err |-> r.err]

\* The one answer to a request for a Transaction the caller cannot reach.
NotFoundResponse == [status |-> 404, err |-> "NotFound"]

\* C20. A getById, update or delete by a user for an id that is not stored is
\* answered exactly as one for the id of a Transaction owned by another user:
\* in both cases, the store being reachable, the caller sees the same 404
\* NotFound, so the two cases cannot be told apart.
NonLeak ==
  [][ ( /\ resp'.op \in {"getById", "update", "delete"}
        /\ resp'.ran /\ resp'.user # NoUser
        /\ resp'.err # "StoreUnavailable"
        /\ \/ resp'.id \notin DOMAIN expenses
           \/ expenses[resp'.id].userId # resp'.user.id )
      => Visible(resp') = NotFoundResponse ]_vars

\* A getById for an id that is not stored was answered 404 while the store
\* held a Transaction of another user.
NonLeakWitness ==
  /\ resp.op = "getById" /\ Visible(resp) = NotFoundResponse
  /\ resp.id \notin DOMAIN expenses
  /\ \E j \in DOMAIN expenses : expenses[j].userId # resp.user.id

(* ------------------------------- C21 ----------------------------------- *)

\* C21. The server listens only after the store connection has succeeded and
\* the admin seeding has finished, and a process that could not reach the
\* store at boot (exit code 1) has exited without ever listening.
StartupOrder ==
  /\ server.pc = "running" => server.connected /\ server.seeded
  /\ server.listened => server.connected /\ server.seeded
  /\ server.code = 1 => server.pc = "exited" /\ ~server.listened /\ ~server.connected

\* The second start of the server could not reach the store.
StartupOrderWitness ==
  /\ server.starts = 2
  /\ server.pc = "exited" /\ server.code = 1
  /\ ~server.listened

(* ------------------------------- C22 ----------------------------------- *)

\* An absent or non-numeric page or limit is replaced by 1 or 10.
QueryDefaults ==
  \A s \in 1..MaxInflight :
    inflight[s].op = "list" =>
      /\ inflight[s].query.page.k # "num" => inflight[s].page = 1
      /\ inflight[s].query.limit.k # "num" => inflight[s].limit = 10

\* C22. A list request whose page or limit is absent or not a number uses
\* page 1 or limit 10, and the page and limit of every list request's store
\* query are at least 1, so that no query is made with a negative skip.
QueryParameters ==
  /\ QueryDefaults
  /\ \A s \in 1..MaxInflight :
       inflight[s].op = "list" => inflight[s].page >= 1 /\ inflight[s].limit >= 1
  /\ ~(resp.op = "list" /\ resp.err = "BadValue")

(* ------------------------------- C23 ----------------------------------- *)

\* The admin's request reached the store and the store answered.
AdminReached(r) ==
  r.ran /\ r.user.role = "admin" /\ r.err # "StoreUnavailable"

\* C23. An admin deleteExpense of a stored Transaction removes that one
\* Transaction and leaves every User and every other Transaction as it was;
\* of an id that is not stored it answers NotFound (404) and changes neither
\* store. An admin deleteUser of a userId that is not stored answers NotFound
\* and deletes no Transaction.
AdminDeleteFrame ==
  [][ /\ (resp'.op = "deleteExpense" /\ AdminReached(resp')) =>
           /\ users' = users
           /\ IF resp'.id \in DOMAIN expenses
              THEN /\ resp'.status = 200
                   /\ DOMAIN expenses' = DOMAIN expenses \ {resp'.id}
                   /\ \A j \in DOMAIN expenses' : expenses'[j] = expenses[j]
              ELSE /\ resp'.status = 404 /\ resp'.err = "NotFound"
                   /\ expenses' = expenses
      /\ (resp'.op = "deleteUser" /\ AdminReached(resp') /\ resp'.calls = 1
          /\ resp'.uid \notin DOMAIN users) =>
           /\ resp'.status = 404 /\ resp'.err = "NotFound"
           /\ expenses' = expenses /\ users' = users /\ inflight' = inflight ]_vars

\* The admin has deleted one of a user's two Transactions.
AdminDeleteFrameWitness ==
  /\ resp.op = "deleteExpense" /\ resp.status = 200
  /\ resp.id \notin DOMAIN expenses
  /\ \E j \in DOMAIN expenses : expenses[j].userId = "u1"
  /\ nextId = 3

(* ------------------------------- C24 ----------------------------------- *)

\* The step in which the update request held in slot s ends.
UpdateAnswered(s) == inflight[s].op = "update" /\ inflight'[s].op = "idle"

\* The value a number of the body stands for: 0 when it is omitted or not a
\* number.
Given(x) == IF x.k = "num" THEN x.v ELSE 0

\* C24. A user update replaces the five mutable fields by the request's
\* values and does not merge: an omitted field is not kept from the stored
\* Transaction (an omitted amount or taxAmount counts as 0). An update that
\* omits description or amount is answered 400 ValidationError and leaves the
\* stored Transaction unchanged; an update answered 200 stores the request's
\* five values.
UpdateReplaces ==
  [][ \A s \in 1..MaxInflight :
        UpdateAnswered(s) =>
          LET body == inflight[s].body
              id == inflight[s].id
          IN /\ (body.description = Missing \/ body.amount = Undef) =>
                  /\ resp'.status = 400 /\ resp'.err = "ValidationError"
                  /\ expenses' = expenses
             /\ resp'.status = 200 =>
                  /\ expenses'[id].description = body.description
                  /\ expenses'[id].amount = Given(body.amount)
                  /\ expenses'[id].type = body.type
                  /\ expenses'[id].taxType = body.taxType
                  /\ expenses'[id].taxAmount = Given(body.taxAmount) ]_vars

\* An update of the stored salary Transaction was rejected and the
\* Transaction is as it was created.
UpdateReplacesWitness ==
  /\ resp.op = "update" /\ resp.status = 400 /\ resp.err = "ValidationError"
  /\ resp.id \in DOMAIN expenses
  /\ expenses[resp.id].description = "salary"
  /\ expenses[resp.id].taxType = "flat" /\ expenses[resp.id].taxAmount = 0
  /\ nextId = 2

(* ------------------------------- C25 ----------------------------------- *)

\* The ids of the Transactions that were created and are no longer stored.
Deleted == (1..(nextId - 1)) \ DOMAIN expenses

\* C25. A deleted Transaction is never resurrected: a Transaction removed by
\* its owner's delete, by an admin deleteExpense or by the deleteUser cascade
\* stays absent from the store, also when a user update read it before the
\* delete and saves after it.
NoResurrection ==
  [][ \A id \in Deleted : id \notin DOMAIN expenses' ]_vars

\* An update that had read its Transaction before a delete removed it has
\* ended, and the Transaction is absent.
NoResurrectionWitness ==
  /\ resp.op = "update" /\ resp.err = "DocumentNotFound"
  /\ resp.id \in Deleted
  /\ \A s \in 1..MaxInflight : inflight[s].op = "idle"

(* ------------------------------- C26 ----------------------------------- *)

\* The Transactions, stored before or after the step, that uid does not own.
OthersOf(uid) ==
  {id \in DOMAIN expenses : expenses[id].userId # uid}
  \cup {id \in DOMAIN expenses' : expenses'[id].userId # uid}

\* C26. A create, update or delete by user U never adds, changes or removes a
\* Transaction owned by another user and never changes a User; a list,
\* getById or dashboardSummary changes nothing in either store.
UserFrame ==
  [][ /\ resp'.op \in {"create", "update", "delete", "list", "getById", "dashboard"} =>
           /\ users' = users
           /\ \A id \in OthersOf(resp'.user.id) :
                /\ id \in DOMAIN expenses /\ id \in DOMAIN expenses'
                /\ expenses'[id] = expenses[id]
      /\ resp'.op \in {"list", "getById", "dashboard"} => expenses' = expenses ]_vars

\* A user has deleted their own Transaction while the admin's is stored.
UserFrameWitness ==
  /\ resp.op = "delete" /\ resp.status = 200 /\ resp.user.id = "u1"
  /\ resp.id \notin DOMAIN expenses
  /\ \E id \in DOMAIN expenses : expenses[id].userId = "adm"

(* ------------------------------- C27 ----------------------------------- *)

\* The users that hold the admin's email.
AdminEmailHolders(us) == {u \in DOMAIN us : us[u].email = AdminEmail}

\* C27. Admin seeding is idempotent: a step of createAdminUser creates the
\* user admin@example.com with role 'admin' only when no user holds that
\* email, never modifies or removes an existing user, leaves at most one user
\* with that email, and, failed or not, leaves the process on its way to
\* listen.
SeedingIdempotent ==
  [][ \A fail \in BOOLEAN :
        (CreateAdminFind(fail) \/ CreateAdminSave(fail)) =>
          /\ \A u \in DOMAIN users : u \in DOMAIN users' /\ users'[u] = users[u]
          /\ users' # users =>
               /\ AdminEmailHolders(users) = {}
               /\ \E u \in DOMAIN users' \ DOMAIN users :
                    /\ DOMAIN users' = DOMAIN users \cup {u}
                    /\ users'[u].email = AdminEmail /\ users'[u].role = "admin"
          /\ Cardinality(AdminEmailHolders(users')) <= 1
          /\ server'.pc \in {"seedSave", "listen"} ]_vars

\* The second start of the server found the admin of the first and has
\* finished seeding.
SeedingIdempotentWitness ==
  /\ server.starts = 2 /\ server.pc = "listen" /\ server.seeded
  /\ AdminEmailHolders(users) = {AdminId}
  /\ users[AdminId].role = "admin"

(* ------------------------------- C28 ----------------------------------- *)

\* Whenever user is non-null, localStorage holds both items and the header is
\* 'Bearer <token>'.
AuthConsistent(a) ==
  a.user # Null => a.token # Absent /\ a.stored # Absent /\ a.header = Bearer(a.token)

\* Everything a login or logout may change.
AuthItems(a) == <<a.user, a.token, a.stored, a.header>>

\* C28 as stated. A checkAuth that finds unparsable user data removes both
\* stored items and leaves user null.
CheckAuthClearsUnparsable ==
  [][ (CheckAuth /\ Unparsable(auth.stored)) =>
        auth'.token = Absent /\ auth'.stored = Absent /\ auth'.user = Null ]_vars

\* C28. Over any sequence of checkAuth, login and logout: whenever user is
\* non-null, localStorage holds 'token' and 'user' and the header is 'Bearer
\* <token>'; after logout user is null and the token, the user item and the
\* header are removed; a failed login changes none of them; a checkAuth that
\* finds a token and unparsable user data removes both items and leaves user
\* null, and one that finds unparsable user data and no token leaves the
\* storage as it is and user null; loading is false once checkAuth has run.
AuthState ==
  [][ /\ AuthConsistent(auth')
      /\ auth'.checked => ~auth'.loading
      /\ Logout => AuthItems(auth') = <<Null, Absent, Absent, Absent>>
      /\ \A u \in {"u1", AdminId} : LoginSettle(FALSE, u) => AuthItems(auth') = AuthItems(auth)
      /\ (CheckAuth /\ Unparsable(auth.stored)) =>
           /\ auth'.user = Null
           /\ IF auth.token # Absent
              THEN auth'.token = Absent /\ auth'.stored = Absent
              ELSE auth'.token = auth.token /\ auth'.stored = auth.stored ]_vars

\* checkAuth has run on unparsable user data stored without a token: the item
\* is still there, user is null and loading false.
AuthStateWitness ==
  /\ auth.checked /\ ~auth.loading /\ auth.user = Null
  /\ auth.token = Absent /\ Unparsable(auth.stored) /\ auth.header = Absent

(* ------------------------------- C29 ----------------------------------- *)

\* The elements rendered only as children of a ProtectedRoute.
ProtectedElements == {"Dashboard", "AdminDashboard", "AddExpense", "EditExpense"}

\* C29. ProtectedRoute renders its children only when loading is false, a
\* user is present and (adminOnly is false or user.role is 'admin'): while
\* loading it renders the loading element, with no user it redirects to
\* /login, and a non-admin on an adminOnly route is redirected to /dashboard;
\* so no protected page is on screen while loading or without a user, and
\* AdminDashboard is never on screen for a non-admin.
ProtectedRouteGuards ==
  /\ \A adminOnly \in BOOLEAN :
       LET r == ProtectedRoute(auth, adminOnly, Element("children"))
       IN /\ r = Element("children") <=>
               ~auth.loading /\ auth.user # Null /\ (~adminOnly \/ auth.user.role = "admin")
          /\ auth.loading => r = LoadingDiv
          /\ ~auth.loading /\ auth.user = Null => r = Navigate("/login")
          /\ ~auth.loading /\ auth.user # Null /\ adminOnly /\ auth.user.role # "admin" =>
               r = Navigate("/dashboard")
  /\ screen.element \in ProtectedElements => ~auth.loading /\ auth.user # Null
  /\ screen.element = "AdminDashboard" => auth.user.role = "admin"

\* A signed-in non-admin who asked for /admin is on the dashboard.
ProtectedRouteGuardsWitness ==
  /\ ~auth.loading /\ auth.user # Null /\ auth.user.role = "user"
  /\ screen = [path |-> "/dashboard", element |-> "Dashboard"]
  /\ ProtectedRoute(auth, TRUE, Element("AdminDashboard")) = Navigate("/dashboard")

(* ------------------------------- C30 ----------------------------------- *)

\* A step of some handleSubmit.
SubmitStep ==
  \/ HandleSubmitStart
  \/ \E outcome \in SubmitOutcomes : HandleSubmitSettle(outcome) \/ OrphanSettle(outcome)

\* C30 as stated. At most one create request is in flight at a time.
OneCreateInFlight == submit.requests + submit.orphans <= 1

\* C30. For the AddExpense form on screen: loading is true from the moment a
\* submit starts until its request settles and false afterwards, on success
\* and on failure; the error is cleared when a submit starts and a message is
\* set on every failure; at most one create request of the form on screen is
\* in flight at a time; and a submit changes the location only after a
\* successful response, to /dashboard.
SubmitDiscipline ==
  [][ /\ submit'.requests <= 1
      /\ submit'.loading <=> submit'.requests = 1
      /\ HandleSubmitStart => submit'.loading /\ submit'.error = ""
      /\ \A outcome \in SubmitOutcomes \ {"created"} :
           HandleSubmitSettle(outcome) =>
             ~submit'.loading /\ submit'.error # "" /\ screen' = screen
      /\ HandleSubmitSettle("created") => ~submit'.loading
      /\ (SubmitStep /\ screen' # screen) =>
           /\ HandleSubmitSettle("created") \/ OrphanSettle("created")
           /\ screen' = Rendered("/dashboard", auth) ]_vars

\* A submit has failed: the form is still on screen, idle, with a message.
SubmitDisciplineWitness ==
  /\ screen.element = "AddExpense"
  /\ ~submit.loading /\ submit.requests = 0
  /\ submit.error = ErrorOf("silent")

====
